---- MODULE Spec2Model ----
(***************************************************************************)
(* Feed consistency engine and autonomous engagement scheduler of          *)
(* facebook.py: the canonical post store (all_posts) with its aliased      *)
(* nested lists, the PostWidget / CommentWidget bindings that hold         *)
(* references into it, the home.json materializer (_rebuild_home_feed),    *)
(* and the RandomUserEngine pipeline (rate cap, probability gate,          *)
(* validation, decline sampling, execution).                               *)
(*                                                                         *)
(* Python lists and dicts are objects with identity.  Lists live in        *)
(* `heap` (a sequence of sequences, a list reference is an index, 0 is     *)
(* "key absent"); comment dicts live in `comment_objs`.  Two references    *)
(* alias exactly when they are the same index.                             *)
(***************************************************************************)
EXTENDS Integers, Sequences, FiniteSets, TLC

\* ------------------------------------------------------------------ bounds
MaxPosts == 3
MaxComments == 2
MaxUuids == 3
MaxCount == 2
MaxClock == 2
MaxNest == 2
MaxOps == 3
MaxSessions == 2
MaxWaits == 2

\* ------------------------------------------------------- program constants
RateWindow == 60
DefaultApm == 3
RollMax == 100
DefaultApc == 65
PostCommentRead == 100
MaxEdits == 10
MaxAgeDays == 30
DaySeconds == 86400
ReportThreshold == 10
BackoffSeconds == 60
DefaultFeedRead == 30

VARIABLES
    all_posts,          \* FacebookGUI.all_posts: sequence of post dicts
    comment_objs,       \* comment dicts, indexed by object identity
    heap,               \* list objects, indexed by object identity
    visible_posts,      \* FacebookGUI.visible_posts: the live PostWidgets
    displayed_post_ids, \* FacebookGUI.displayed_post_ids
    home,               \* system/feed/home.json: the posts array
    files,              \* the per-scope posts.json documents
    now,                \* wall clock, in seconds
    uuids,              \* number of uuid4 tokens drawn so far
    rebuilding_feed,    \* FacebookGUI._rebuilding_feed
    chain,              \* the rebuild call chain: is the outermost invocation
                        \* still on the stack, how many invocations nested in
                        \* it so far, how many invocations ran their body
    action_timestamps,  \* RandomUserEngine.action_timestamps
    config,             \* RandomUserEngine: the options of config.json read
                        \* here and, where the proposer is modelled, llm and
                        \* the error strategies of context.json
    ops,                \* number of handler invocations so far
    last                \* record of the last operation (observation only)

vars == <<all_posts, comment_objs, heap, visible_posts, displayed_post_ids,
          home, files, now, uuids, rebuilding_feed, chain,
          action_timestamps, config, ops, last>>

\* ----------------------------------------------------------------- helpers
Range(s) == {s[i] : i \in 1..Len(s)}

RECURSIVE SeqSum(_)
SeqSum(s) == IF s = <<>> THEN 0 ELSE Head(s) + SeqSum(Tail(s))

SelectIdx(s, P(_)) == {i \in 1..Len(s) : P(s[i])}

Min(S) == CHOOSE x \in S : \A y \in S : x <= y
Max(S) == CHOOSE x \in S : \A y \in S : y <= x

\* index of the first element of s satisfying P, 0 when there is none
\* (the `for x in xs: if ...: break` idiom)
FirstIdx(s, P(_)) ==
    IF SelectIdx(s, P) = {} THEN 0 ELSE Min(SelectIdx(s, P))

\* Let(v, F) is F applied to the value of v, with v evaluated once
Let(v, F(_)) == CHOOSE r \in {F(x) : x \in {v}} : TRUE

\* the users and texts the model draws from
CurrentUser == "You"
AgentName == "Random User"
Emojis == {"like", "love"}
\* a body is <<its first 30 characters, the rest>>
Bodies == {<<"a", "">>, <<"a", "x">>}
First30(body) == body[1]

NoEmb == [kind |-> "none"]

\* generate_deterministic_post_id: md5 over folder, timestamp and the first
\* 30 characters of the content ("empty" for an empty content); the hash is
\* taken to be injective on the triples, so the id is the triple.
EmptyBody == <<"", "">>
generate_deterministic_post_id(folder_name, content, timestamp) ==
    <<folder_name, timestamp,
      IF content = EmptyBody THEN "empty" ELSE First30(content)>>

\* the state the handlers transform, packed in one record
St == [posts |-> all_posts, cobj |-> comment_objs, heap |-> heap,
       widgets |-> visible_posts, displayed |-> displayed_post_ids,
       home |-> home, files |-> files, uuids |-> uuids,
       rebuilds |-> 0, applied |-> 0, raised |-> FALSE]

\* --------------------------------------------------------- object access
\* the elements of the list object l (the empty list for an absent key,
\* as post.get('comments_list', []) reads it)
ListOf(st, l) == IF l = 0 THEN <<>> ELSE st.heap[l]

\* allocate a new list object; its reference is NewRef(st)
NewRef(st) == Len(st.heap) + 1
Alloc(st, elems) == [st EXCEPT !.heap = Append(@, elems)]

PutList(st, l, elems) == [st EXCEPT !.heap[l] = elems]

\* uuid.uuid4() draws a token never drawn before
NewUuid(st) == st.uuids + 1

\* ------------------------------------------------------------- visibility
\* post_visibility_tiers as load_feed_settings returns them when
\* home_feed.json sets nothing
DefaultTiers ==
    {[min_likes |-> 0, max_days |-> 3], [min_likes |-> 10, max_days |-> 7],
     [min_likes |-> 50, max_days |-> 21], [min_likes |-> 100, max_days |-> 30]}

\* the 'time' of a post dict: a string strptime parses (to `at` seconds),
\* a string it rejects, or a value that is not a string
TimeStr(at) == [kind |-> "timestamp", at |-> at]
BadTimeStr == [kind |-> "text"]
NoTimeStr == [kind |-> "other"]

\* a policy that takes a post matching either criterion of a tier
is_post_visible_either(time_str, likes, tiers, time) ==
    IF time_str.kind # "timestamp" THEN TRUE
    ELSE \E t \in tiers :
            \/ likes >= t.min_likes
            \/ time - time_str.at <= t.max_days * DaySeconds

\* FacebookGUI.is_post_visible at wall-clock time `time`: the age in days
\* is total_seconds() / 86400, a real number, compared with max_days
is_post_visible(time_str, likes, tiers, time) ==
    IF time_str.kind # "timestamp" THEN TRUE
    ELSE \E t \in tiers :
            /\ likes >= t.min_likes
            /\ time - time_str.at <= t.max_days * DaySeconds

\* ------------------------------------------------------------ Materializer
\* list.sort(key=time, reverse=True) / sorted(..., reverse=True) over the
\* positions idxs (given in list order): newest first, and positions with
\* equal times keep their list order (the sort is stable).  `left` is the
\* set of time values not yet emitted.
RECURSIVE NewestFirst(_, _, _)
NewestFirst(left, idxs, times) ==
    IF left = {} THEN <<>>
    ELSE Let(Max(left), LAMBDA t :
             SelectSeq(idxs, LAMBDA i : times[i] = t)
             \o NewestFirst(left \ {t}, idxs, times))

SortNewestFirst(idxs, times) ==
    Let(idxs, LAMBDA is :
    Let(times, LAMBDA ts :
        NewestFirst({ts[is[n]] : n \in 1..Len(is)}, is, ts)))

\* the home.json shape of a reply list (author/timestamp naming)
VisibleReplies(st, l) ==
    Let(ListOf(st, l), LAMBDA rs :
        [k \in 1..Len(rs) |->
            [id |-> rs[k].id, author |-> rs[k].username,
             likes |-> rs[k].likes, timestamp |-> rs[k].time]])

\* _get_visible_comments(comments_list, 100, 100, 50, 50): every comment,
\* newest first, in home.json field names.  Comments of the model always
\* carry an id, so the in-place id repair of the source changes nothing.
get_visible_comments(st, l) ==
    Let(ListOf(st, l), LAMBDA cs :
    Let(SortNewestFirst([i \in 1..Len(cs) |-> i],
                        [i \in 1..Len(cs) |-> st.cobj[cs[i]].time]),
        LAMBDA order :
          [k \in 1..Len(cs) |->
              [id |-> st.cobj[cs[order[k]]].id,
               author |-> st.cobj[cs[order[k]]].username,
               likes |-> st.cobj[cs[order[k]]].likes,
               reacts |-> ListOf(st, st.cobj[cs[order[k]]].reacts),
               timestamp |-> st.cobj[cs[order[k]]].time,
               replies |-> VisibleReplies(st, st.cobj[cs[order[k]]].replies)]]))

AuthorType(folder) ==
    IF folder = "random_user" THEN "random_user"
    ELSE IF folder = "user" THEN "user" ELSE "agent"

\* the post an embedded_post denotes when it is read: a human share embeds
\* a dict built at share time, an agent share embeds the original dict
EmbeddedView(st, e) ==
    IF e.kind = "alias"
    THEN LET k == FirstIdx(st.posts, LAMBDA p : p.pid = e.pid)
         IN IF k = 0 THEN [content |-> e.content, likes |-> e.likes,
                           comments |-> e.comments, shares |-> e.shares]
            ELSE [content |-> st.posts[k].content,
                  likes |-> st.posts[k].likes,
                  comments |-> st.posts[k].comments,
                  shares |-> st.posts[k].shares]
    ELSE [content |-> e.content, likes |-> e.likes,
          comments |-> e.comments, shares |-> e.shares]

\* one entry of home.json as _rebuild_home_feed builds it from a store post
HomeEntry(st, post) ==
    [id |-> post.id,
     type |-> IF post.is_quote THEN "quote"
              ELSE IF post.emb.kind # "none" THEN "repost" ELSE "original",
     author |-> post.username,
     author_type |-> AuthorType(post.folder),
     author_folder |-> post.folder,
     content |-> post.content,
     timestamp |-> post.time,
     likes |-> post.likes,
     comments |-> post.comments,
     shares |-> IF post.emb.kind # "none" THEN 0 ELSE post.shares,
     visible_comments |-> get_visible_comments(st, post.cl),
     reacts |-> ListOf(st, post.reacts),
     embedded_post |-> IF post.emb.kind = "none" THEN NoEmb
                       ELSE [kind |-> "embedded"] @@ EmbeddedView(st, post.emb)]

\* json.dump of a post dict: the nested lists are written by value
CommentDoc(st, c) ==
    [id |-> st.cobj[c].id, username |-> st.cobj[c].username,
     time |-> st.cobj[c].time, likes |-> st.cobj[c].likes,
     reacts |-> ListOf(st, st.cobj[c].reacts),
     replies |-> ListOf(st, st.cobj[c].replies)]

PostDoc(st, post) ==
    [id |-> post.id, folder |-> post.folder, username |-> post.username,
     time |-> post.time, content |-> post.content, likes |-> post.likes,
     comments |-> post.comments, shares |-> post.shares,
     is_quote |-> post.is_quote, edits |-> post.edits,
     reports |-> post.reports, reported_by |-> post.reported_by,
     has_comments_list |-> post.cl # 0,
     comments_list |-> Let(ListOf(st, post.cl), LAMBDA cs :
                           [k \in 1..Len(cs) |-> CommentDoc(st, cs[k])]),
     reacts |-> ListOf(st, post.reacts),
     embedded_post |-> IF post.emb.kind = "none" THEN NoEmb
                       ELSE [kind |-> "embedded"] @@ EmbeddedView(st, post.emb)]

Scopes == {"user", "1"}

\* a save that files the agent's posts with the user's
save_posts_unfiltered(st) ==
    LET docsOf(f) == SelectSeq(st.posts, LAMBDA p :
                        p.folder = f \/ (f = "user" /\ p.folder = "random_user"))
        asDocs(ps) == [k \in 1..Len(ps) |-> PostDoc(st, ps[k])]
    IN [st EXCEPT !.files =
          [f \in Scopes |->
             IF f = "user" \/ docsOf(f) # <<>>
             THEN asDocs(docsOf(f)) ELSE st.files[f]]]

\* save_posts: one document per author scope; random_user posts are
\* skipped; an agent document is rewritten only if the store holds a post
\* of that folder.
save_posts(st) ==
    LET docsOf(f) == SelectSeq(st.posts, LAMBDA p : p.folder = f)
        asDocs(ps) == [k \in 1..Len(ps) |-> PostDoc(st, ps[k])]
    IN [st EXCEPT !.files =
          [f \in Scopes |->
             IF f = "user" \/ docsOf(f) # <<>>
             THEN asDocs(docsOf(f)) ELSE st.files[f]]]

\* the re-entrancy guard at the head of _rebuild_home_feed
RebuildSkippedNever(flag) == FALSE
RebuildSkipped(flag) == flag

\* _rebuild_home_feed(all_posts) entered with self._rebuilding_feed = flag:
\* a no-op when the flag is set; otherwise one home entry per post that has
\* an id (every post of the model has one), written to home.json, followed
\* by save_posts.  `rebuilds` counts the completed rebuilds of the handler.
\* _get_visible_comments is called with post_comment_read = 100; for a
\* longer list it falls into its filtered branch, which reads an unbound
\* name and raises before anything is written.
rebuild_home_feed(st, flag) ==
    IF RebuildSkipped(flag) THEN st
    ELSE IF \E k \in 1..Len(st.posts) :
               Len(ListOf(st, st.posts[k].cl)) > PostCommentRead
    THEN [st EXCEPT !.raised = TRUE]
    ELSE Let([st EXCEPT !.home = [k \in 1..Len(st.posts) |->
                                     HomeEntry(st, st.posts[k])],
                        !.rebuilds = @ + 1],
             LAMBDA s1 : save_posts(s1))

\* a rebuild whose flag is reset only on the way out of a body that ran to
\* its end
rebuilding_feed_after_unprotected(flag, raised) ==
    IF RebuildSkipped(flag) THEN flag ELSE raised

\* the value of _rebuilding_feed when _rebuild_home_feed, entered with
\* _rebuilding_feed = flag, is left by return or (raised) by an exception:
\* the guard returns with the flag as it is; past the guard the flag is set
\* and the `finally` of the body resets it
rebuilding_feed_after(flag, raised) ==
    IF RebuildSkipped(flag) THEN flag ELSE FALSE

\* the value of _loading_posts when load_posts is left: set before the
\* rebuild, reset in the `finally` around it
loading_posts_after(raised) == FALSE

\* ----------------------------------------------------------------- widgets
\* CommentWidget.__init__: `self.replies_data = replies if replies else []`
\* keeps the list handed in only when it is non-empty
LoadComments(st, cs) ==
    LET keep(i) == ListOf(st, st.cobj[cs[i]].replies) # <<>>
        \* how many of the first i comment widgets made a list of their own
        fresh(i) == Cardinality({j \in 1..i : ~keep(j)})
    IN [st |-> [st EXCEPT !.heap = @ \o [j \in 1..fresh(Len(cs)) |-> <<>>]],
        cws |-> [i \in 1..Len(cs) |->
                   [comment_id |-> st.cobj[cs[i]].id, ref |-> cs[i],
                    replies_data |-> IF keep(i) THEN st.cobj[cs[i]].replies
                                     ELSE Len(st.heap) + fresh(i)]]]

\* the emoji of the first record of username in a reacts list, "" if none
ReactionOf(reacts, username) ==
    LET k == FirstIdx(reacts, LAMBDA r : r.username = username)
    IN IF k = 0 THEN "" ELSE reacts[k].emoji

\* create_post_from_data(post_data) for the store post at index k (`of`
\* names the dict the widget was built from):
\* PostWidget.__init__ binds post_data.get('comments_list', []) (a new list
\* when the key is absent), caches the three counters and builds one
\* CommentWidget per stored comment; the widget joins visible_posts.
create_post_from_data(st, k) ==
    LET post == st.posts[k]
        cl == IF post.cl = 0 THEN NewRef(st) ELSE post.cl
    IN Let(IF post.cl = 0 THEN Alloc(st, <<>>) ELSE st, LAMBDA s1 :
       Let(ListOf(s1, cl), LAMBDA cs :
       Let(LoadComments(s1, cs), LAMBDA ld :
           [ld.st EXCEPT !.widgets = Append(@,
               [of |-> post.pid, post_id |-> post.id, time_str |-> post.time,
                username |-> post.username, content |-> post.content,
                comments_list |-> cl,
                likes_count |-> post.likes,
                comments_count |-> post.comments,
                shares_count |-> post.shares,
                user_reaction |-> ReactionOf(ListOf(st, post.reacts), CurrentUser),
                edits |-> post.edits,
                cws |-> ld.cws])])))

\* PostWidget.update_from_all_posts: refresh the cached counters from the
\* first store post carrying the widget's id
update_from_all_posts(st, w) ==
    LET k == FirstIdx(st.posts, LAMBDA p : p.id = w.post_id)
    IN IF k = 0 THEN w
       ELSE [w EXCEPT !.likes_count = st.posts[k].likes,
                      !.comments_count = st.posts[k].comments,
                      !.shares_count = st.posts[k].shares]

refresh_post_widgets(st) ==
    [st EXCEPT !.widgets =
        [i \in 1..Len(st.widgets) |-> update_from_all_posts(st, st.widgets[i])]]

\* the replies re-synchronisation inside add_comment: for the i-th comment
\* of the widget's list, the i-th comment dict of the store list gets its
\* 'replies' bound to the replies_data of the first CommentWidget carrying
\* that comment's id
SyncReplies(st, wcl, pcl, cws) ==
    Let(Min({Len(wcl), Len(pcl)}), LAMBDA m :
    \* for position i, the CommentWidget found for the i-th comment's id
    Let([i \in 1..m |-> FirstIdx(cws, LAMBDA cw :
                           cw.comment_id = st.cobj[wcl[i]].id)], LAMBDA found :
    \* for comment dict c, the last position of the store list that holds it
    \* and has a CommentWidget (the later assignment stands)
    Let([c \in 1..Len(st.cobj) |->
            Max({0} \cup {i \in 1..m : pcl[i] = c /\ found[i] # 0})],
        LAMBDA at :
          [st EXCEPT !.cobj =
              [c \in 1..Len(st.cobj) |->
                  IF at[c] = 0 THEN st.cobj[c]
                  ELSE [st.cobj[c] EXCEPT
                          !.replies = cws[found[at[c]]].replies_data]]])))

\* ---------------------------------------------------------- human handlers
\* the comment dict add_comment builds, with its two new lists
NewComment(st, comment_id, username, time) ==
    [id |-> comment_id, username |-> username, time |-> time, likes |-> 0,
     reacts |-> NewRef(st), replies |-> NewRef(st) + 1]

\* the store synchronisation of add_comment for widget w: the FIRST post
\* whose time equals the widget's time string is taken to be its post
SyncCommentsToStore(st, w) ==
    LET k == FirstIdx(st.posts, LAMBDA p : p.time = w.time_str)
    IN IF k = 0 THEN st
       ELSE Let(IF st.posts[k].cl = 0
                THEN [st EXCEPT !.posts[k].cl = w.comments_list]
                ELSE IF st.posts[k].cl # w.comments_list
                THEN PutList(st, st.posts[k].cl, ListOf(st, w.comments_list))
                ELSE st, LAMBDA s1 :
            Let(SyncReplies(s1, ListOf(s1, w.comments_list),
                            ListOf(s1, s1.posts[k].cl), w.cws), LAMBDA s2 :
                [s2 EXCEPT !.posts[k].comments = w.comments_count]))

\* PostWidget.add_comment(username, avatar, content, time, comment_id) on
\* the widget at index wi, entered with _rebuilding_feed = flag
add_comment(st, wi, username, comment_id, time, flag) ==
    LET w == st.widgets[wi]
        ci == Len(st.cobj) + 1
        cw == [comment_id |-> comment_id, ref |-> ci,
               replies_data |-> NewRef(st) + 2]
        w1 == [w EXCEPT !.cws = Append(@, cw), !.comments_count = @ + 1]
    IN Let([st EXCEPT
              !.heap = Append(Append(Append(
                          [@ EXCEPT ![w.comments_list] = Append(@, ci)],
                          <<>>), <<>>), <<>>),
              !.cobj = Append(@, NewComment(st, comment_id, username, time)),
              !.widgets[wi] = w1], LAMBDA s1 :
       Let(SyncCommentsToStore(s1, w1), LAMBDA s2 :
       Let(save_posts(s2), LAMBDA s3 :
           rebuild_home_feed(s3, flag))))

\* PostWidget.add_reaction(emoji): toggle on the widget, then the same
\* change on the first store post matching the widget's id or its time
add_reaction(st, wi, emoji, time) ==
    LET w == st.widgets[wi]
        reaction_type == IF w.user_reaction = emoji THEN "remove"
                         ELSE IF w.user_reaction # "" THEN "change" ELSE "add"
        w1 == [w EXCEPT
                 !.user_reaction = IF reaction_type = "remove" THEN "" ELSE emoji,
                 !.likes_count = IF reaction_type = "remove"
                                 THEN IF @ > 0 THEN @ - 1 ELSE 0
                                 ELSE IF reaction_type = "add" THEN @ + 1 ELSE @]
        k == FirstIdx(st.posts,
                      LAMBDA p : p.id = w.post_id \/ p.time = w.time_str)
    IN IF k = 0 THEN [st EXCEPT !.widgets[wi] = w1]
       ELSE LET post == st.posts[k]
                reacts == ListOf(st, post.reacts)
                e == FirstIdx(reacts, LAMBDA r : r.username = CurrentUser)
                without == [i \in 1..(Len(reacts) - 1) |->
                              IF i < e THEN reacts[i] ELSE reacts[i + 1]]
                rec == [username |-> CurrentUser, emoji |-> emoji,
                        timestamp |-> time]
                reacts1 ==
                    IF reaction_type = "remove"
                    THEN IF e > 0 THEN without ELSE reacts
                    ELSE IF reaction_type = "change"
                    THEN IF e > 0 THEN Append(without, rec) ELSE reacts
                    ELSE IF e = 0 THEN Append(reacts, rec) ELSE reacts
                likes1 == IF reaction_type = "add" THEN post.likes + 1
                          ELSE IF reaction_type = "remove"
                          THEN IF post.likes > 0 THEN post.likes - 1 ELSE 0
                          ELSE post.likes
            IN Let([st EXCEPT !.widgets[wi] = w1,
                              !.heap[post.reacts] = reacts1,
                              !.posts[k].likes = likes1], LAMBDA s1 :
               Let(save_posts(s1), LAMBDA s2 :
               Let(rebuild_home_feed(s2, FALSE), LAMBDA s3 :
                   \* both calls sit in try/except: an error is swallowed
                   [s3 EXCEPT !.raised = FALSE])))

\* a new post dict; `pid` is the identity of the dict object (the reference
\* of the reacts list created with it, which no other object shares)
NewPost(st, folder, username, content, time, id, cl, emb, is_quote) ==
    [pid |-> NewRef(st), id |-> id, folder |-> folder, username |-> username,
     content |-> content, time |-> time, likes |-> 0, comments |-> 0,
     shares |-> 0, cl |-> cl, reacts |-> NewRef(st), emb |-> emb,
     is_quote |-> is_quote, edits |-> <<>>, reports |-> 0,
     reported_by |-> <<>>]

\* add_to_home_feed('post', entry): append to the document as it is on
\* disk, then cleanup_home_feed, which drops entries older than the longest
\* visibility tier (and trims the document only above 500 entries)
cleanup_home_feed(st, time) ==
    [st EXCEPT !.home =
        SelectSeq(@, LAMBDA e : time - e.timestamp <= MaxAgeDays * DaySeconds)]

add_to_home_feed(st, entry, time) ==
    cleanup_home_feed([st EXCEPT !.home = Append(@, entry)], time)

\* FacebookGUI.add_post: the post dict carries its own empty comments_list
\* and reacts; save, append the feed entry, create the widget
add_post(st, content, time) ==
    LET id == generate_deterministic_post_id("user", content, time)
        post == NewPost(st, "user", CurrentUser, content, time, id,
                        NewRef(st) + 1, NoEmb, FALSE)
        entry == [id |-> id, type |-> "original", author |-> CurrentUser,
                  author_type |-> "user", content |-> content,
                  timestamp |-> time, likes |-> 0, comments |-> 0,
                  shares |-> 0]
    IN Let([st EXCEPT !.heap = Append(Append(@, <<>>), <<>>),
                      !.posts = Append(@, post)], LAMBDA s1 :
       Let(save_posts(s1), LAMBDA s2 :
       Let(add_to_home_feed(s2, entry, time), LAMBDA s3 :
       Let(create_post_from_data(s3, Len(s3.posts)), LAMBDA s4 :
           [s4 EXCEPT !.displayed = @ \cup {id}]))))

\* FacebookGUI.add_shared_post: new 'user' post embedding the dict handed
\* in; save, widget, rebuild
add_shared_post(st, content, emb, is_quote, time) ==
    LET id == generate_deterministic_post_id("user", content, time)
        post == NewPost(st, "user", CurrentUser, content, time, id,
                        NewRef(st) + 1, emb, is_quote)
    IN Let([st EXCEPT !.heap = Append(Append(@, <<>>), <<>>),
                      !.posts = Append(@, post)], LAMBDA s1 :
       Let(save_posts(s1), LAMBDA s2 :
       Let(create_post_from_data(s2, Len(s2.posts)), LAMBDA s3 :
       Let([s3 EXCEPT !.displayed = @ \cup {id}], LAMBDA s4 :
           rebuild_home_feed(s4, FALSE)))))

\* PostWidget.edit_post with new_text accepted in the dialog: the text joins
\* the widget's edit history, sync_edit_to_parent stores the history on the
\* first post with the widget's time and saves, update_home_feed_with_edit
\* makes the text that post's content and rebuilds
edit_post(st, wi, new_text, flag) ==
    LET w == st.widgets[wi]
        current_text == IF w.edits # <<>> THEN w.edits[Len(w.edits)]
                        ELSE w.content
        k == FirstIdx(st.posts, LAMBDA p : p.time = w.time_str)
    IN IF new_text = EmptyBody \/ new_text = current_text
          \/ Len(w.edits) >= MaxEdits
       THEN st
       ELSE Let([st EXCEPT !.widgets[wi].edits = Append(@, new_text)],
                LAMBDA s1 :
                  IF k = 0 THEN s1
                  ELSE Let([s1 EXCEPT !.posts[k].edits = Append(w.edits, new_text)],
                           LAMBDA s2 :
                       Let(save_posts(s2), LAMBDA s3 :
                       Let([s3 EXCEPT !.posts[k].content = new_text], LAMBDA s4 :
                           rebuild_home_feed(s4, flag)))))

\* PostWidget.report_post by the profile's user: the first post with the
\* widget's time takes the user into reported_by unless already there, the
\* count becomes the length of the list, save_posts; at the threshold every
\* post with that time leaves all_posts, save_posts, rebuild, and the widget
\* leaves the layout
report_post(st, wi, user_identifier) ==
    LET w == st.widgets[wi]
        k == FirstIdx(st.posts, LAMBDA p : p.time = w.time_str)
    IN IF k = 0 THEN st
       ELSE IF user_identifier \in Range(st.posts[k].reported_by) THEN st
       ELSE Let([st EXCEPT !.posts[k].reported_by = Append(@, user_identifier),
                           !.posts[k].reports = Len(st.posts[k].reported_by) + 1],
                LAMBDA s1 :
            Let(save_posts(s1), LAMBDA s2 :
                IF s2.posts[k].reports >= ReportThreshold
                THEN Let([s2 EXCEPT
                            !.posts = SelectSeq(@, LAMBDA p : p.time # w.time_str)],
                         LAMBDA s3 :
                     Let(save_posts(s3), LAMBDA s4 :
                     Let(rebuild_home_feed(s4, FALSE), LAMBDA s5 :
                         [s5 EXCEPT !.widgets =
                             SubSeq(@, 1, wi - 1) \o SubSeq(@, wi + 1, Len(@))])))
                ELSE s2))

\* PostWidget.unreport_post: the user leaves reported_by of the first post
\* with the widget's time, if there; the count becomes the length of the
\* list, save_posts
unreport_post(st, wi, user_identifier) ==
    LET w == st.widgets[wi]
        k == FirstIdx(st.posts, LAMBDA p : p.time = w.time_str)
    IN IF k = 0 THEN st
       ELSE IF user_identifier \notin Range(st.posts[k].reported_by) THEN st
       ELSE Let(FirstIdx(st.posts[k].reported_by,
                         LAMBDA u : u = user_identifier), LAMBDA i :
            Let([st EXCEPT !.posts[k].reported_by =
                              SubSeq(@, 1, i - 1) \o SubSeq(@, i + 1, Len(@)),
                           !.posts[k].reports = Len(st.posts[k].reported_by) - 1],
                LAMBDA s1 : save_posts(s1)))

\* PostWidget.delete_post: every post with the widget's time string leaves
\* all_posts, save_posts, rebuild, and the widget leaves the layout
delete_post(st, wi) ==
    LET w == st.widgets[wi]
    IN Let([st EXCEPT
              !.posts = SelectSeq(@, LAMBDA p : p.time # w.time_str)],
           LAMBDA s1 :
       Let(save_posts(s1), LAMBDA s2 :
       Let(rebuild_home_feed(s2, FALSE), LAMBDA s3 :
           IF s3.raised THEN s3
           ELSE [s3 EXCEPT !.widgets =
                    SubSeq(@, 1, wi - 1) \o SubSeq(@, wi + 1, Len(@))])))

ShareBody == <<"You shared a post", "">>

\* PostWidget.handle_share(share_type): the embedded dict is built from the
\* widget's cached values; for repost and quote the widget's cached share
\* count is incremented and WRITTEN to the first store post with the
\* widget's time; "friend" only increments the cached count
handle_share(st, wi, share_type, quote, time) ==
    LET w == st.widgets[wi]
        original_post_data ==
            [kind |-> "snapshot", pid |-> 0, username |-> w.username,
             content |-> w.content, time |-> w.time_str,
             likes |-> w.likes_count, comments |-> w.comments_count,
             shares |-> w.shares_count]
        k == FirstIdx(st.posts, LAMBDA p : p.time = w.time_str)
    IN IF share_type = "friend"
       THEN [st EXCEPT !.widgets[wi].shares_count = @ + 1]
       ELSE Let(IF k = 0
                THEN [st EXCEPT !.widgets[wi].shares_count = @ + 1]
                ELSE [st EXCEPT !.widgets[wi].shares_count = @ + 1,
                                !.posts[k].shares = w.shares_count + 1],
                LAMBDA s1 :
                  IF share_type = "repost"
                  THEN add_shared_post(s1, ShareBody, original_post_data,
                                       FALSE, time)
                  ELSE add_shared_post(s1, quote, original_post_data,
                                       TRUE, time))

\* CommentWidget.add_reply(reply_data, save_to_backend) on comment widget j
\* of post widget wi: the entry (always under a NEW reply id) goes to the
\* widget's replies_data; with save_to_backend the store post found by the
\* widget's post id gets its counter bumped if it holds the comment
add_reply(st, wi, j, username, time, save_to_backend) ==
    LET w == st.widgets[wi]
        cw == w.cws[j]
        reply_entry == [id |-> NewUuid(st), username |-> username,
                        time |-> time, likes |-> <<>>]
        k == FirstIdx(st.posts, LAMBDA p : p.id = w.post_id)
        c == IF k = 0 THEN 0
             ELSE FirstIdx(ListOf(st, st.posts[k].cl),
                           LAMBDA x : st.cobj[x].id = cw.comment_id)
    IN IF ~save_to_backend \/ k = 0 \/ c = 0
       THEN [st EXCEPT !.uuids = @ + 1,
                       !.heap[cw.replies_data] = Append(@, reply_entry)]
       ELSE Let([st EXCEPT !.uuids = @ + 1,
                           !.heap[cw.replies_data] = Append(@, reply_entry),
                           !.posts[k].comments = @ + 1], LAMBDA s1 :
            Let(rebuild_home_feed(s1, FALSE), LAMBDA s2 :
                IF s2.raised THEN s2
                ELSE [s2 EXCEPT !.widgets[wi].comments_count = @ + 1]))

\* CommentWidget.on_comment_reaction(emoji) on comment widget j of post
\* widget wi: the action (add, change, remove) is read off the record of
\* the current user in the reacts list of the comment dict the widget
\* refers to; the list is changed in place and the count-only counter moves
\* with it; save_posts and _rebuild_home_feed follow, each in try/except
on_comment_reaction(st, wi, j, emoji, time) ==
    LET c == st.widgets[wi].cws[j].ref
        reacts == ListOf(st, st.cobj[c].reacts)
        e == FirstIdx(reacts, LAMBDA r : r.username = CurrentUser)
        action_type == IF e > 0 /\ reacts[e].emoji = emoji THEN "remove"
                       ELSE IF e > 0 THEN "change" ELSE "add"
        without == [i \in 1..(Len(reacts) - 1) |->
                      IF i < e THEN reacts[i] ELSE reacts[i + 1]]
        rec == [username |-> CurrentUser, emoji |-> emoji, timestamp |-> time]
        reacts1 == IF action_type = "remove" THEN without
                   ELSE IF action_type = "change" THEN Append(without, rec)
                   ELSE Append(reacts, rec)
        likes == st.cobj[c].likes
        likes1 == IF action_type = "add" THEN likes + 1
                  ELSE IF action_type = "remove"
                  THEN IF likes > 0 THEN likes - 1 ELSE 0
                  ELSE likes
    IN Let([st EXCEPT !.heap[st.cobj[c].reacts] = reacts1,
                      !.cobj[c].likes = likes1], LAMBDA s1 :
       Let(save_posts(s1), LAMBDA s2 :
       Let(rebuild_home_feed(s2, FALSE), LAMBDA s3 :
           [s3 EXCEPT !.raised = FALSE])))

\* a like toggle that appends without looking at the list
ToggledLikes_unchecked(likes, username) == Append(likes, username)

\* ReplyWidget.toggle_reaction on the likes list of a reply: every
\* occurrence of the user is removed if there is one, else the user is
\* appended
ToggledLikes(likes, username) ==
    IF \E i \in 1..Len(likes) : likes[i] = username
    THEN SelectSeq(likes, LAMBDA u : u # username)
    ELSE Append(likes, username)

\* ReplyWidget.toggle_reaction for the widget of reply r of comment widget
\* j of post widget wi: the reply's likes list (the list of the reply dict
\* in the comment widget's replies_data) is changed in place, then
\* save_posts and, unless a rebuild is running, _rebuild_home_feed
toggle_reaction(st, wi, j, r, flag) ==
    LET l == st.widgets[wi].cws[j].replies_data
    IN Let([st EXCEPT !.heap[l][r].likes = ToggledLikes(@, CurrentUser)],
           LAMBDA s1 :
       Let(save_posts(s1), LAMBDA s2 : rebuild_home_feed(s2, flag)))

\* ---------------------------------------------------------- agent handlers
\* `post.get('id') == post_id or post_id in str(post.get('id', ''))`: ids
\* have one fixed shape, so a whole id is a substring only of itself
IdMatches(id, post_id) == id = post_id

LastIdx(s, P(_)) ==
    IF SelectIdx(s, P) = {} THEN 0
    ELSE CHOOSE i \in SelectIdx(s, P) : \A j \in SelectIdx(s, P) : j <= i

\* position <<k, c>> of the first comment carrying comment_id, scanning the
\* posts in store order and each comments_list in list order; <<0, 0>> if none
FindComment(st, comment_id) ==
    LET holds(p) == FirstIdx(ListOf(st, p.cl),
                             LAMBDA x : st.cobj[x].id = comment_id) # 0
        k == FirstIdx(st.posts, holds)
    IN IF k = 0 THEN <<0, 0>>
       ELSE <<k, ListOf(st, st.posts[k].cl)[
                    FirstIdx(ListOf(st, st.posts[k].cl),
                             LAMBDA x : st.cobj[x].id = comment_id)]>>

\* add_random_user_reaction: count-only like on the first matching post
add_random_user_reaction_recorded(st, post_id) ==
    LET k == FirstIdx(st.posts, LAMBDA p : IdMatches(p.id, post_id))
    IN IF k = 0 THEN st
       ELSE Let([st EXCEPT !.posts[k].likes = @ + 1,
                           !.heap[st.posts[k].reacts] =
                               Append(@, [username |-> AgentName,
                                          emoji |-> "like", timestamp |-> 0])],
                LAMBDA s1 :
            Let(save_posts(s1), LAMBDA s2 : rebuild_home_feed(s2, FALSE)))

add_random_user_reaction(st, post_id) ==
    LET k == FirstIdx(st.posts, LAMBDA p : IdMatches(p.id, post_id))
    IN IF k = 0 THEN st
       ELSE Let([st EXCEPT !.posts[k].likes = @ + 1], LAMBDA s1 :
            Let(save_posts(s1), LAMBDA s2 : rebuild_home_feed(s2, FALSE)))

\* add_random_user_comment: the counter is bumped and a missing
\* comments_list key is bound to a NEW list; the comment itself is added
\* only through the first visible widget carrying the post id
add_random_user_comment(st, post_id, time) ==
    LET comment_id == NewUuid(st)
        k == FirstIdx(st.posts, LAMBDA p : IdMatches(p.id, post_id))
        wi == FirstIdx(st.widgets, LAMBDA w : w.post_id = post_id)
    IN IF k = 0 THEN [st EXCEPT !.uuids = @ + 1]
       ELSE Let(IF st.posts[k].cl # 0
                THEN [st EXCEPT !.uuids = @ + 1, !.posts[k].comments = @ + 1]
                ELSE [st EXCEPT !.uuids = @ + 1, !.posts[k].comments = @ + 1,
                                !.heap = Append(@, <<>>),
                                !.posts[k].cl = NewRef(st)], LAMBDA s1 :
            Let(save_posts(s1), LAMBDA s2 :
            Let(IF wi = 0 THEN s2
                ELSE add_comment(s2, wi, AgentName, comment_id, time, FALSE),
                LAMBDA s3 :
                  IF s3.raised THEN s3 ELSE rebuild_home_feed(s3, FALSE))))

\* add_random_user_reply: the reply is appended to the store comment's
\* replies list; the PostWidget registered under the post's id (the last
\* one created with it) then adds it to the matching CommentWidget through
\* add_reply(save_to_backend=False) and bumps its cached counter
add_random_user_reply(st, comment_id, time) ==
    LET reply_id == NewUuid(st)
        f == FindComment(st, comment_id)
        k == f[1]
        reply_data == [id |-> reply_id, username |-> AgentName,
                       time |-> time, likes |-> <<>>]
        wi == LastIdx(st.widgets, LAMBDA w : w.post_id = st.posts[k].id)
        j == IF wi = 0 THEN 0
             ELSE FirstIdx(st.widgets[wi].cws,
                           LAMBDA cw : cw.comment_id = comment_id)
    IN IF f[1] = 0 THEN [st EXCEPT !.uuids = @ + 1]
       ELSE Let([st EXCEPT !.uuids = @ + 1,
                           !.heap[st.cobj[f[2]].replies] = Append(@, reply_data),
                           !.posts[k].comments = @ + 1], LAMBDA s1 :
            Let(IF j = 0 THEN s1
                ELSE add_reply(s1, wi, j, AgentName, time, FALSE), LAMBDA s2 :
            Let(IF j = 0 THEN s2
                ELSE [s2 EXCEPT !.widgets[wi].comments_count = @ + 1],
                LAMBDA s3 : rebuild_home_feed(s3, FALSE))))

\* add_random_user_comment_reaction: count-only like on the first comment
\* carrying the id
add_random_user_comment_reaction(st, comment_id) ==
    LET f == FindComment(st, comment_id)
    IN IF f[1] = 0 THEN st
       ELSE Let([st EXCEPT !.cobj[f[2]].likes = @ + 1], LAMBDA s1 :
            Let(save_posts(s1), LAMBDA s2 : rebuild_home_feed(s2, FALSE)))

\* add_random_user_post: a 'random_user' post WITHOUT a comments_list key
add_random_user_post(st, content, time) ==
    LET id == generate_deterministic_post_id("random_user", content, time)
        post == NewPost(st, "random_user", AgentName, content, time, id,
                        0, NoEmb, FALSE)
    IN Let([st EXCEPT !.heap = Append(@, <<>>), !.posts = Append(@, post)],
           LAMBDA s1 : rebuild_home_feed(s1, FALSE))

RepostBody == <<"repost", "">>

\* repost_random_user_post / quote_random_user_post: the new post embeds
\* the original dict itself; its id is derived from the literal 'repost'
\* (repost) or from the quote text; the original's share counter is
\* incremented in the store
share_random_user_post(st, post_id, content, is_quote, time) ==
    LET k == FirstIdx(st.posts, LAMBDA p : IdMatches(p.id, post_id))
    IN IF k = 0 THEN st
       ELSE LET orig == st.posts[k]
                id == generate_deterministic_post_id(
                          "random_user",
                          IF is_quote THEN content ELSE RepostBody, time)
                emb == [kind |-> "alias", pid |-> orig.pid,
                        username |-> orig.username, content |-> orig.content,
                        time |-> orig.time, likes |-> orig.likes,
                        comments |-> orig.comments, shares |-> orig.shares]
                post == NewPost(st, "random_user", AgentName,
                                IF is_quote THEN content ELSE EmptyBody,
                                time, id, 0, emb, is_quote)
            IN Let([st EXCEPT !.heap = Append(@, <<>>),
                              !.posts = Append([@ EXCEPT ![k].shares = @ + 1],
                                               post)], LAMBDA s1 :
               Let(save_posts(s1), LAMBDA s2 : rebuild_home_feed(s2, FALSE)))

repost_random_user_post(st, post_id, time) ==
    share_random_user_post(st, post_id, EmptyBody, FALSE, time)

quote_random_user_post(st, post_id, content, time) ==
    share_random_user_post(st, post_id, content, TRUE, time)

\* ------------------------------------------------------------- the pipeline
\* absent (None) values of the proposal fields
NoPost == <<>>
NoComment == 0
NoContent == <<>>
NoType == ""

\* Python truthiness of the fields
HasId(x) == x # NoPost
HasComment(x) == x # NoComment
HasContent(x) == x # NoContent /\ x # EmptyBody
HasType(x) == x # NoType

\* the tool registry (tools.json)
ToolNames == {"post_reactions", "make_post", "comment_post", "reply_comment",
              "repost_post", "quote_post", "react_comment"}
CommentLevelTools == {"reply_comment", "react_comment"}

\* _validate_actions without the test of post_id against the snapshot
AcceptsAnyPost(a, valid_post_ids, valid_comment_ids) ==
    /\ a.tool \in ToolNames
    /\ ~(a.tool = "quote_post" /\ HasId(a.original_post_id)
          /\ a.original_post_id \notin valid_post_ids)
    /\ (HasComment(a.comment_id) =>
           /\ a.tool \in CommentLevelTools
           /\ a.comment_id \in valid_comment_ids)
    /\ ~(a.tool \in CommentLevelTools /\ ~HasComment(a.comment_id))

\* one proposal passes _validate_actions
Accepts(a, valid_post_ids, valid_comment_ids) ==
    /\ a.tool \in ToolNames
    /\ ~(HasId(a.post_id) /\ a.post_id \notin valid_post_ids)
    /\ ~(a.tool = "quote_post" /\ HasId(a.original_post_id)
          /\ a.original_post_id \notin valid_post_ids)
    /\ (HasComment(a.comment_id) =>
           /\ a.tool \in CommentLevelTools
           /\ a.comment_id \in valid_comment_ids)
    /\ ~(a.tool \in CommentLevelTools /\ ~HasComment(a.comment_id))

\* _validate_actions: the accepted proposals, in the order proposed
validate_actions(actions, valid_post_ids, valid_comment_ids) ==
    SelectSeq(actions, LAMBDA a : Accepts(a, valid_post_ids, valid_comment_ids))

\* the id sets generate_actions collects from the feed document it is given
ValidPostIds(feed) == {feed[i].id : i \in 1..Len(feed)}
ValidCommentIds(feed) ==
    UNION {IF "visible_comments" \in DOMAIN feed[i]
           THEN {feed[i].visible_comments[j].id :
                    j \in 1..Len(feed[i].visible_comments)}
           ELSE {} : i \in 1..Len(feed)}

\* _apply_decline_actions: number of actions kept
NumToKeep(n, cfg) ==
    IF n = 0 \/ cfg.decline_actions # 1 \/ cfg.decline_actions_cent <= 0
    THEN n
    ELSE LET k == (n * (100 - cfg.decline_actions_cent)) \div 100
             m == IF k < 1 THEN 1 ELSE k
         IN IF m >= n THEN n ELSE m

\* random.sample(actions, n): any n distinct positions, in any order
Samples(actions, n) ==
    {[i \in 1..n |-> actions[f[i]]] :
        f \in {g \in [1..n -> 1..Len(actions)] :
                  \A x, y \in 1..n : x # y => g[x] # g[y]}}

apply_decline_actions(actions, cfg) ==
    IF NumToKeep(Len(actions), cfg) >= Len(actions) THEN {actions}
    ELSE Samples(actions, NumToKeep(Len(actions), cfg))

\* execute_random_user_action: dispatch on the tool; each branch runs only
\* when the fields it reads are truthy, otherwise nothing happens
execute_random_user_action(st, a, time) ==
    IF a.tool = "post_reactions" /\ HasId(a.post_id) /\ HasType(a.type)
    THEN Let(add_random_user_reaction(st, a.post_id), LAMBDA s1 :
             IF s1.raised THEN s1 ELSE refresh_post_widgets(s1))
    ELSE IF a.tool = "comment_post" /\ HasId(a.post_id) /\ HasContent(a.content)
    THEN Let(add_random_user_comment(st, a.post_id, time), LAMBDA s1 :
             IF s1.raised THEN s1 ELSE refresh_post_widgets(s1))
    ELSE IF a.tool = "reply_comment" /\ HasComment(a.comment_id)
                                     /\ HasContent(a.content)
    THEN add_random_user_reply(st, a.comment_id, time)
    ELSE IF a.tool = "react_comment" /\ HasComment(a.comment_id)
                                     /\ HasType(a.type)
    THEN add_random_user_comment_reaction(st, a.comment_id)
    ELSE IF a.tool = "make_post" /\ HasContent(a.content)
    THEN add_random_user_post(st, a.content, time)
    ELSE IF a.tool = "repost_post" /\ HasId(a.post_id)
    THEN repost_random_user_post(st, a.post_id, time)
    ELSE IF a.tool = "quote_post"
    THEN LET target == IF HasId(a.original_post_id)
                       THEN a.original_post_id ELSE a.post_id
         IN IF HasId(target) /\ HasContent(a.content)
            THEN quote_random_user_post(st, target, a.content, time)
            ELSE st
    ELSE st

\* the part of the state that is the canonical store
StoreOf(st) == <<st.posts, st.cobj, st.heap>>

\* `for action in actions: execute_random_user_action(action)` inside the
\* try of run_random_user_session: an exception ends the loop; `effects`
\* records, per executed action, whether the store changed, `raised`
\* whether the loop ended by an exception
RECURSIVE ExecuteAll(_, _, _, _)
ExecuteAll(st, actions, time, effects) ==
    IF actions = <<>> \/ st.raised
    THEN [st |-> [st EXCEPT !.raised = FALSE], effects |-> effects,
          raised |-> st.raised]
    ELSE Let(execute_random_user_action(st, Head(actions), time), LAMBDA s1 :
         Let(Append(effects, StoreOf(s1) # StoreOf(st)), LAMBDA e1 :
             ExecuteAll(s1, Tail(actions), time, e1)))

\* -------------------------------------------------------------- construction
\* the state of an installation without documents
Blank ==
    [posts |-> <<>>, cobj |-> <<>>, heap |-> <<>>, widgets |-> <<>>,
     displayed |-> {}, home |-> <<>>, files |-> [f \in Scopes |-> <<>>],
     uuids |-> 0, rebuilds |-> 0, applied |-> 0, raised |-> FALSE]

\* load_posts reading one stored post: the dict with its comments_list
\* (load_posts adds the key when the document lacks it) holding ncomments
\* stored comments, each with an empty reacts list and nreplies stored
\* replies nobody has liked
LoadStoredComments(st, cl, n, time, nreplies) ==
    [st EXCEPT
       !.cobj = @ \o [i \in 1..n |->
                        [id |-> st.uuids + i, username |-> "Friend",
                         time |-> time, likes |-> 0,
                         reacts |-> Len(st.heap) + 2 * i - 1,
                         replies |-> Len(st.heap) + 2 * i]],
       !.heap = [@ EXCEPT ![cl] = @ \o [i \in 1..n |-> Len(st.cobj) + i]]
                \o [x \in 1..(2 * n) |->
                       IF x % 2 = 1 THEN <<>>
                       ELSE [r \in 1..nreplies |->
                               [id |-> st.uuids + n
                                          + ((x \div 2) - 1) * nreplies + r,
                                username |-> "Friend", time |-> time,
                                likes |-> <<>>]]],
       !.uuids = @ + n + n * nreplies]

LoadStoredPost(st, doc) ==
    LET post == [NewPost(st, doc.folder, doc.username, doc.content, doc.time,
                         generate_deterministic_post_id(doc.folder, doc.content,
                                                        doc.time),
                         NewRef(st) + 1, NoEmb, FALSE)
                   EXCEPT !.comments = doc.ncomments * (1 + doc.nreplies),
                          !.reports = Len(doc.reported_by),
                          !.reported_by = doc.reported_by]
    IN Let([st EXCEPT !.heap = Append(Append(@, <<>>), <<>>),
                      !.posts = Append(@, post)], LAMBDA s1 :
           LoadStoredComments(s1, NewRef(st) + 1, doc.ncomments, doc.time,
                              doc.nreplies))

RECURSIVE LoadStoredPosts(_, _)
LoadStoredPosts(st, docs) ==
    IF docs = <<>> THEN st
    ELSE Let(LoadStoredPost(st, Head(docs)), LAMBDA s1 :
             LoadStoredPosts(s1, Tail(docs)))

\* load_initial_posts at wall-clock time `time`: one widget per stored
\* post that is_post_visible accepts (they are fewer than posts_per_load)
RECURSIVE LoadInitialPosts(_, _, _)
LoadInitialPosts(st, k, time) ==
    IF k > Len(st.posts) THEN st
    ELSE IF ~is_post_visible(TimeStr(st.posts[k].time), st.posts[k].likes,
                             DefaultTiers, time)
    THEN LoadInitialPosts(st, k + 1, time)
    ELSE Let(create_post_from_data(st, k), LAMBDA s1 :
         Let([s1 EXCEPT !.displayed = @ \cup {st.posts[k].id}], LAMBDA s2 :
             LoadInitialPosts(s2, k + 1, time)))

UserDoc(content, n) ==
    [folder |-> "user", username |-> CurrentUser, content |-> content,
     time |-> 0, ncomments |-> n, nreplies |-> 0, reported_by |-> <<>>]
FriendDoc(content, n) ==
    [folder |-> "1", username |-> "Friend", content |-> content,
     time |-> 0, ncomments |-> n, nreplies |-> 0, reported_by |-> <<>>]

\* ------------------------------------------------------------- load_posts
\* the comment dicts and lists of one loaded comments_list, bound to the
\* list object cl; cds are the comments in the internal field names
LoadCommentDocs(st, cl, cds) ==
    [st EXCEPT
       !.cobj = @ \o [i \in 1..Len(cds) |->
                        [id |-> cds[i].id, username |-> cds[i].username,
                         time |-> cds[i].time, likes |-> cds[i].likes,
                         reacts |-> Len(st.heap) + 2 * i - 1,
                         replies |-> Len(st.heap) + 2 * i]],
       !.heap = [@ EXCEPT ![cl] = [i \in 1..Len(cds) |-> Len(st.cobj) + i]]
                \o [x \in 1..(2 * Len(cds)) |->
                       IF x % 2 = 1 THEN cds[(x + 1) \div 2].reacts
                       ELSE cds[x \div 2].replies]]

\* an embedded_post read from a document: a dict of its own
LoadedEmb(e) ==
    IF e.kind = "none" THEN NoEmb
    ELSE [kind |-> "snapshot", pid |-> 0, username |-> "", time |-> 0,
          content |-> e.content, likes |-> e.likes, comments |-> e.comments,
          shares |-> e.shares]

\* a loader that computes the id of every post it reads
LoadPostDoc_recomputed(st, d) ==
    LET post == [NewPost(st, d.folder, d.username, d.content, d.time,
                         generate_deterministic_post_id(d.folder, d.content,
                                                        d.time),
                         NewRef(st) + 1, LoadedEmb(d.embedded_post),
                         d.is_quote)
                   EXCEPT !.likes = d.likes, !.comments = d.comments,
                          !.shares = d.shares, !.edits = d.edits,
                          !.reports = d.reports,
                          !.reported_by = d.reported_by]
    IN Let([st EXCEPT !.heap = Append(Append(@, d.reacts), <<>>),
                      !.posts = Append(@, post)], LAMBDA s1 :
           LoadCommentDocs(s1, NewRef(st) + 1, d.comments_list))

\* one post dict of posts.json joins all_posts (comments_list is added when
\* the document lacks it)
LoadPostDoc(st, d) ==
    LET post == [NewPost(st, d.folder, d.username, d.content, d.time, d.id,
                         NewRef(st) + 1, LoadedEmb(d.embedded_post),
                         d.is_quote)
                   EXCEPT !.likes = d.likes, !.comments = d.comments,
                          !.shares = d.shares, !.edits = d.edits,
                          !.reports = d.reports,
                          !.reported_by = d.reported_by]
    IN Let([st EXCEPT !.heap = Append(Append(@, d.reacts), <<>>),
                      !.posts = Append(@, post)], LAMBDA s1 :
           LoadCommentDocs(s1, NewRef(st) + 1, d.comments_list))

RECURSIVE LoadPostDocs(_, _)
LoadPostDocs(st, docs) ==
    IF docs = <<>> THEN st
    ELSE Let(LoadPostDoc(st, Head(docs)), LAMBDA s1 :
             LoadPostDocs(s1, Tail(docs)))

\* a loader that takes visible_comments to be newest first and turns them
\* round
LoadedOrder_reversed(vcs) == [i \in 1..Len(vcs) |-> vcs[Len(vcs) + 1 - i]]

\* the order in which load_posts takes over the visible_comments of a feed
\* entry: as they stand
LoadedOrder(vcs) == vcs

\* the post dict load_posts builds from a feed entry of the agent:
\* visible_comments and their replies are converted back to the internal
\* field names; edits and reports start empty
FromHomeEntry(e) ==
    [id |-> e.id, folder |-> "random_user", username |-> e.author,
     time |-> e.timestamp, content |-> e.content, likes |-> e.likes,
     comments |-> e.comments, shares |-> e.shares,
     is_quote |-> e.type = "quote", edits |-> <<>>,
     reports |-> 0, reported_by |-> <<>>,
     has_comments_list |-> TRUE,
     comments_list |->
        Let(LoadedOrder(e.visible_comments), LAMBDA vcs :
            [i \in 1..Len(vcs) |->
                [id |-> vcs[i].id, username |-> vcs[i].author,
                 time |-> vcs[i].timestamp, likes |-> vcs[i].likes,
                 reacts |-> vcs[i].reacts,
                 replies |-> [r \in 1..Len(vcs[i].replies) |->
                                [id |-> vcs[i].replies[r].id,
                                 username |-> vcs[i].replies[r].author,
                                 time |-> vcs[i].replies[r].timestamp,
                                 likes |-> vcs[i].replies[r].likes]]]]),
     reacts |-> e.reacts,
     embedded_post |-> e.embedded_post]

\* the feed entries of the agent join all_posts, except those whose id a
\* post loaded before them carries
RECURSIVE LoadHomeEntries(_, _)
LoadHomeEntries(st, entries) ==
    IF entries = <<>> THEN st
    ELSE LET e == Head(entries)
         IN IF (e.author = AgentName \/ e.author_type = "random_user")
               /\ \A k \in 1..Len(st.posts) : st.posts[k].id # e.id
            THEN Let(LoadPostDoc(st, FromHomeEntry(e)), LAMBDA s1 :
                     LoadHomeEntries(s1, Tail(entries)))
            ELSE LoadHomeEntries(st, Tail(entries))

\* load_posts: user/posts.json, the posts.json of every friend folder, the
\* agent's entries of home.json; then _rebuild_home_feed
load_posts(st) ==
    Let([Blank EXCEPT !.files = st.files, !.home = st.home,
                      !.uuids = st.uuids], LAMBDA s0 :
    Let(LoadPostDocs(s0, st.files["user"] \o st.files["1"]), LAMBDA s1 :
    Let(LoadHomeEntries(s1, st.home), LAMBDA s2 :
        rebuild_home_feed(s2, FALSE))))

\* the installations the model starts from
Installations ==
    { <<>>,
      <<UserDoc(<<"a", "">>, 1)>>,
      <<UserDoc(<<"a", "">>, 0), UserDoc(<<"b", "">>, 0)>>,
      <<FriendDoc(<<"a", "">>, 0)>> }

\* FacebookGUI.__init__: load_posts (which rebuilds), load_initial_posts
Constructed(docs, time) ==
    Let(LoadStoredPosts(Blank, docs), LAMBDA s1 :
    Let(rebuild_home_feed(s1, FALSE), LAMBDA s2 :
        LoadInitialPosts(s2, 1, time)))

\* config.json as the engine reads it when the file sets nothing
DefaultConfig ==
    [work |-> 1, actions_per_minute |-> DefaultApm,
     actions_per_cent |-> DefaultApc,
     decline_actions |-> 0, decline_actions_cent |-> 0]

\* the option sets of config.json the model draws from: the defaults, a
\* lower cap, no cap, decline sampling of half and of a third of the
\* actions, and paused
Configs ==
    {DefaultConfig,
     [DefaultConfig EXCEPT !.actions_per_minute = DefaultApm - 1],
     [DefaultConfig EXCEPT !.actions_per_minute = 0],
     [DefaultConfig EXCEPT !.decline_actions = 1,
                           !.decline_actions_cent = RollMax \div 2],
     [DefaultConfig EXCEPT !.decline_actions = 1,
                           !.decline_actions_cent = RollMax \div 3],
     [DefaultConfig EXCEPT !.work = 0]}

\* the variables take the values of a handler's result
Commit(st) ==
    /\ all_posts' = st.posts
    /\ comment_objs' = st.cobj
    /\ heap' = st.heap
    /\ visible_posts' = st.widgets
    /\ displayed_post_ids' = st.displayed
    /\ home' = st.home
    /\ files' = st.files
    /\ uuids' = st.uuids

InitAt(docs, cfg, time) ==
    \E st \in {Constructed(docs, time)} :
       /\ all_posts = st.posts
       /\ comment_objs = st.cobj
       /\ heap = st.heap
       /\ visible_posts = st.widgets
       /\ displayed_post_ids = st.displayed
       /\ home = st.home
       /\ files = st.files
       /\ uuids = st.uuids
       /\ now = time
       /\ rebuilding_feed = FALSE
       /\ chain = [depth |-> 0, completed |-> 1, active |-> FALSE]
       /\ action_timestamps = <<>>
       /\ config = cfg
       /\ ops = 0
       /\ last = [op |-> "init"]

\* the program starts one second after the documents were written
InitWith(docs, cfg) == InitAt(docs, cfg, 1)

Init == \E docs \in Installations : InitWith(docs, DefaultConfig)

\* ------------------------------------------------------------------ actions
\* no rebuild is in flight, so a handler runs from start to end; the number
\* of handler runs explored is capped
Quiet == ~chain.active /\ ops < MaxOps

\* the store post a widget displays: the first one carrying its id
PostOfWidget(w) == FirstIdx(all_posts, LAMBDA p : p.id = w.post_id)

\* the counters and collections stay inside the bounds explored
WithinBounds(st) ==
    /\ Len(st.posts) <= MaxPosts
    /\ Len(st.cobj) <= MaxComments
    /\ st.uuids <= MaxUuids
    /\ \A k \in 1..Len(st.posts) :
          st.posts[k].likes <= MaxCount /\ st.posts[k].shares <= MaxCount
    /\ \A c \in 1..Len(st.cobj) : st.cobj[c].likes <= MaxCount
    /\ \A i \in 1..Len(st.widgets) : st.widgets[i].shares_count <= MaxCount

\* a second of wall-clock time passes
Tick ==
    /\ Quiet /\ now < MaxClock
    /\ now' = now + 1
    /\ last' = [op |-> "tick"]
    /\ UNCHANGED <<all_posts, comment_objs, heap, visible_posts,
                   displayed_post_ids, home, files, uuids, rebuilding_feed,
                   chain, action_timestamps, config, ops>>

\* the user submits the composer
AddPost ==
    /\ Quiet
    /\ \E content \in Bodies :
          \E r \in {add_post(St, content, now)} :
             /\ WithinBounds(r) /\ Commit(r)
             /\ last' = [op |-> "add_post"]
    /\ ops' = ops + 1
    /\ UNCHANGED <<now, rebuilding_feed, chain, action_timestamps, config>>

\* feed_monitor_timer fires: check_for_new_posts creates a widget for
\* every store id not yet displayed, newest first
RECURSIVE ShowNew(_, _)
ShowNew(st, ks) ==
    IF ks = <<>> THEN st
    ELSE IF st.posts[Head(ks)].id \in st.displayed THEN ShowNew(st, Tail(ks))
    ELSE Let(create_post_from_data(st, Head(ks)), LAMBDA s1 :
         Let([s1 EXCEPT !.displayed = @ \cup {st.posts[Head(ks)].id}],
             LAMBDA s2 : ShowNew(s2, Tail(ks))))

check_for_new_posts(st) ==
    Let(SortNewestFirst(
            SelectSeq([k \in 1..Len(st.posts) |-> k],
                      LAMBDA k : st.posts[k].id \notin st.displayed),
            [k \in 1..Len(st.posts) |-> st.posts[k].time]),
        LAMBDA order : ShowNew(st, order))

CheckForNewPosts ==
    /\ Quiet
    /\ \E k \in 1..Len(all_posts) : all_posts[k].id \notin displayed_post_ids
    /\ \E r \in {check_for_new_posts(St)} : Commit(r)
    /\ last' = [op |-> "check_for_new_posts"]
    /\ ops' = ops + 1
    /\ UNCHANGED <<now, rebuilding_feed, chain, action_timestamps, config>>

\* the user submits a comment on a displayed post
UserAddComment ==
    /\ Quiet
    /\ \E wi \in 1..Len(visible_posts) :
          \E s0 \in {[St EXCEPT !.uuids = @ + 1]} :
          \E r \in {add_comment(s0, wi, CurrentUser, NewUuid(St), now,
                                 rebuilding_feed)} :
             /\ WithinBounds(r) /\ Commit(r)
             /\ last' = [op |-> "add_comment", wi |-> wi,
                          k |-> PostOfWidget(visible_posts[wi]),
                          comment |-> Len(comment_objs) + 1]
    /\ ops' = ops + 1
    /\ UNCHANGED <<now, rebuilding_feed, chain, action_timestamps, config>>

\* the user picks a reaction on a displayed post
ReactionStep(Within(_)) ==
    /\ Quiet
    /\ \E wi \in 1..Len(visible_posts), emoji \in Emojis :
          \E r \in {add_reaction(St, wi, emoji, now)} :
             /\ Within(r) /\ Commit(r)
             /\ last' = [op |-> "add_reaction", wi |-> wi]
    /\ ops' = ops + 1
    /\ UNCHANGED <<now, rebuilding_feed, chain, action_timestamps, config>>

UserAddReaction == ReactionStep(WithinBounds)

\* the user shares a displayed post: repost, quote or send to a friend
UserShare ==
    /\ Quiet
    /\ \E wi \in 1..Len(visible_posts),
          share_type \in {"repost", "quote", "friend"} :
          \E r \in {handle_share(St, wi, share_type, <<"b", "">>, now)} :
             /\ WithinBounds(r) /\ Commit(r)
             /\ last' = [op |-> "handle_share", share_type |-> share_type,
                          wi |-> wi, k |-> PostOfWidget(visible_posts[wi])]
    /\ ops' = ops + 1
    /\ UNCHANGED <<now, rebuilding_feed, chain, action_timestamps, config>>

\* the user edits a displayed post; show_post_options offers the entry on
\* the user's own posts
EditedBody == <<"e", "">>
UserEdit ==
    /\ Quiet
    /\ \E wi \in 1..Len(visible_posts) :
          /\ visible_posts[wi].username = CurrentUser
          /\ visible_posts[wi].edits = <<>>
          /\ \E r \in {edit_post(St, wi, EditedBody, rebuilding_feed)} :
                /\ Commit(r)
                /\ last' = [op |-> "edit_post", wi |-> wi]
    /\ ops' = ops + 1
    /\ UNCHANGED <<now, rebuilding_feed, chain, action_timestamps, config>>

\* the user replies to a displayed comment
UserReply ==
    /\ Quiet
    /\ \E wi \in 1..Len(visible_posts) :
          \E j \in 1..Len(visible_posts[wi].cws) :
             \E r \in {add_reply(St, wi, j, CurrentUser, now, TRUE)} :
                /\ WithinBounds(r) /\ Commit(r)
                /\ last' = [op |-> "add_reply", wi |-> wi, j |-> j]
    /\ ops' = ops + 1
    /\ UNCHANGED <<now, rebuilding_feed, chain, action_timestamps, config>>

\* a proposal as the content proposer returns it
Act(tool, post_id, original_post_id, comment_id, content, type) ==
    [tool |-> tool, post_id |-> post_id,
     original_post_id |-> original_post_id, comment_id |-> comment_id,
     content |-> content, type |-> type]

AgentBody == <<"a", "">>

\* the complete, well-targeted proposals over a feed document
PostLevel(feed) ==
    {Act("make_post", NoPost, NoPost, NoComment, AgentBody, NoType)}
    \cup UNION {{Act("post_reactions", p, NoPost, NoComment, NoContent, "like"),
                 Act("comment_post", p, NoPost, NoComment, AgentBody, NoType),
                 Act("repost_post", p, NoPost, NoComment, NoContent, NoType),
                 Act("quote_post", NoPost, p, NoComment, AgentBody, NoType)}
                : p \in ValidPostIds(feed)}

WellFormed(feed) ==
    PostLevel(feed)
    \cup UNION {{Act("reply_comment", NoPost, NoPost, c, AgentBody, NoType),
                 Act("react_comment", NoPost, NoPost, c, NoContent, "like")}
                : c \in ValidCommentIds(feed)}

\* one validated agent action of the set S is executed
\* (execute_random_user_action as run_random_user_session calls it for each
\* action of a session, inside its try)
AgentStep(S, Within(_)) ==
    /\ Quiet
    /\ \E a \in S :
          /\ Accepts(a, ValidPostIds(home), ValidCommentIds(home))
          /\ \E r \in {ExecuteAll(St, <<a>>, now, <<>>)} :
                /\ Within(r.st)
                /\ Commit(r.st)
                /\ last' = [op |-> "agent", action |-> a,
                             k |-> FirstIdx(all_posts, LAMBDA p :
                                      IdMatches(p.id,
                                          IF a.tool = "quote_post"
                                          THEN a.original_post_id
                                          ELSE a.post_id)),
                             c |-> FindComment(St, a.comment_id)[2]]
    /\ ops' = ops + 1
    /\ UNCHANGED <<now, rebuilding_feed, chain, action_timestamps, config>>

AgentAct == AgentStep(WellFormed(home), WithinBounds)

\* an invocation of _rebuild_home_feed passes the guard and sets the flag
RebuildEnter ==
    /\ Quiet /\ ~RebuildSkipped(rebuilding_feed)
    /\ rebuilding_feed' = TRUE
    /\ ops' = ops + 1
    /\ chain' = [depth |-> 0, completed |-> 0, active |-> TRUE]
    /\ last' = [op |-> "rebuild_enter"]
    /\ UNCHANGED <<all_posts, comment_objs, heap, visible_posts,
                   displayed_post_ids, home, files, now, uuids,
                   action_timestamps, config>>

\* _rebuild_home_feed is invoked again while the flag is set
RebuildNested ==
    /\ chain.active /\ chain.depth < MaxNest
    /\ \E r \in {rebuild_home_feed(St, rebuilding_feed)} :
          /\ Commit(r)
          /\ chain' = [chain EXCEPT !.depth = @ + 1,
                                    !.completed = @ + r.rebuilds]
          \* an invocation that ran its body resets the flag on its way out
          /\ rebuilding_feed' = rebuilding_feed_after(rebuilding_feed, r.raised)
    /\ last' = [op |-> "rebuild_nested"]
    /\ UNCHANGED <<now, action_timestamps, config, ops>>

\* the invocation that set the flag runs its body and resets the flag
RebuildExit ==
    /\ chain.active
    /\ \E r \in {rebuild_home_feed(St, FALSE)} :
          /\ Commit(r)
          /\ chain' = [depth |-> 0, completed |-> chain.completed + r.rebuilds,
                        active |-> FALSE]
          /\ rebuilding_feed' = rebuilding_feed_after(FALSE, r.raised)
    /\ last' = [op |-> "rebuild_exit"]
    /\ UNCHANGED <<now, action_timestamps, config, ops>>

Next ==
    \/ Tick
    \/ AddPost
    \/ CheckForNewPosts
    \/ UserAddComment
    \/ UserAddReaction
    \/ UserShare
    \/ UserReply
    \/ UserEdit
    \/ AgentAct
    \/ RebuildEnter
    \/ RebuildNested
    \/ RebuildExit

Spec == Init /\ [][Next]_vars

\* ------------------------------------------------------------ the scheduler
\* the timestamps run_session keeps: those younger than one minute
Recent(stamps, time) == SelectSeq(stamps, LAMBDA t : t > time - RateWindow)

\* a throttle that lets the cycle at the cap itself through
RateCappedStrictly(recent, apm) == recent > apm

\* the throttle test of run_session
RateCapped(recent, apm) == recent >= apm

\* gates without the roll against actions_per_cent
SessionGateWithoutRoll(cfg, stamps, time, roll) ==
    IF cfg.work = 0 THEN "paused"
    ELSE IF cfg.actions_per_minute > 0
            /\ RateCapped(Len(Recent(stamps, time)), cfg.actions_per_minute)
    THEN "throttled"
    ELSE "go"

\* the gates of run_session ahead of the proposer: paused (work = 0),
\* throttled (rate cap), skipped (the roll is above actions_per_cent), go
SessionGate(cfg, stamps, time, roll) ==
    IF cfg.work = 0 THEN "paused"
    ELSE IF cfg.actions_per_minute > 0
            /\ RateCapped(Len(Recent(stamps, time)), cfg.actions_per_minute)
    THEN "throttled"
    ELSE IF roll > cfg.actions_per_cent THEN "skipped"
    ELSE "go"

\* action_timestamps after the throttle test: pruned when a cap is set
Pruned(cfg, stamps, time) ==
    IF cfg.work # 0 /\ cfg.actions_per_minute > 0 THEN Recent(stamps, time)
    ELSE stamps

\* run_session with the roll drawn and the proposer's answer `proposed`:
\* the outcomes it can return (one per sample decline sampling can draw),
\* each with the actions returned and action_timestamps afterwards.  With
\* an empty feed document the actions returned leave no timestamps.
run_session(cfg, stamps, time, feed, roll, proposed) ==
    IF SessionGate(cfg, stamps, time, roll) # "go"
    THEN {[gate |-> SessionGate(cfg, stamps, time, roll),
           proposed |-> <<>>, validated |-> <<>>, actions |-> <<>>,
           stamps |-> Pruned(cfg, stamps, time)]}
    ELSE {[gate |-> "go", proposed |-> proposed,
           validated |-> validate_actions(proposed, ValidPostIds(feed),
                                          ValidCommentIds(feed)),
           actions |-> kept,
           stamps |-> IF feed = <<>> THEN Pruned(cfg, stamps, time)
                      ELSE Pruned(cfg, stamps, time)
                           \o [i \in 1..Len(kept) |-> time]] :
          kept \in apply_decline_actions(
                      validate_actions(proposed, ValidPostIds(feed),
                                       ValidCommentIds(feed)), cfg)}

\* a post id no feed document holds
StrangerPost == <<"nobody", 0, "empty">>

\* proposals the validator has to judge: aimed outside the snapshot, with a
\* target of the wrong level, without a field the tool reads, of no tool
Flawed(feed, fresh) ==
    {Act("post_reactions", StrangerPost, NoPost, NoComment, NoContent, "like"),
     Act("quote_post", NoPost, StrangerPost, NoComment, AgentBody, NoType),
     Act("reply_comment", NoPost, NoPost, fresh, AgentBody, NoType),
     Act("reply_comment", NoPost, NoPost, NoComment, AgentBody, NoType),
     Act("make_post", NoPost, NoPost, NoComment, NoContent, NoType),
     Act("share_link", NoPost, NoPost, NoComment, AgentBody, NoType)}
    \cup UNION {{Act("repost_post", p, StrangerPost, NoComment, NoContent, NoType),
                 Act("comment_post", p, NoPost, NoComment, NoContent, NoType),
                 Act("post_reactions", p, NoPost, NoComment, NoContent, NoType),
                 Act("quote_post", p, NoPost, NoComment, AgentBody, NoType)}
                : p \in ValidPostIds(feed)}
    \cup UNION {{Act("reply_comment", p, NoPost, c, AgentBody, NoType),
                 Act("post_reactions", p, NoPost, c, NoContent, "like")}
                : p \in ValidPostIds(feed), c \in ValidCommentIds(feed)}

\* the answers of the proposer the model draws from: nothing, one proposal,
\* a flawed proposal followed by a well-formed one, and three well-formed
\* proposals on one post
Batches(feed, fresh) ==
    {<<>>}
    \cup {<<a>> : a \in WellFormed(feed) \cup Flawed(feed, fresh)}
    \cup {<<b, Act("make_post", NoPost, NoPost, NoComment, AgentBody, NoType)>>
             : b \in Flawed(feed, fresh)}
    \cup {<<Act("post_reactions", p, NoPost, NoComment, NoContent, "like"),
            Act("comment_post", p, NoPost, NoComment, AgentBody, NoType),
            Act("make_post", NoPost, NoPost, NoComment, AgentBody, NoType)>>
             : p \in ValidPostIds(feed)}

\* randint(1, 100): the draws on either side of actions_per_cent
Rolls == {DefaultApc, DefaultApc + 1}

\* run_random_user_session (timer or manual call): run_session, then every
\* action returned is executed in order
RunSession ==
    /\ ~chain.active /\ ops < MaxSessions
    /\ \E roll \in Rolls, proposed \in Batches(home, NewUuid(St)) :
          \E out \in run_session(config, action_timestamps, now, home, roll,
                                 proposed) :
          \E r \in {ExecuteAll(St, out.actions, now, <<>>)} :
             /\ WithinBounds(r.st)
             /\ Commit(r.st)
             /\ action_timestamps' = out.stamps
             /\ last' = [op |-> "session", gate |-> out.gate,
                         proposed |-> out.proposed,
                         validated |-> out.validated,
                         accepted |-> out.actions, effects |-> r.effects,
                         rebuilds |-> r.st.rebuilds]
    /\ ops' = ops + 1
    /\ UNCHANGED <<now, rebuilding_feed, chain, config>>

\* half a minute passes
Wait ==
    /\ ~chain.active
    /\ now < 1 + MaxWaits * (RateWindow \div 2)
    /\ now' = now + RateWindow \div 2
    /\ last' = [op |-> "wait"]
    /\ UNCHANGED <<all_posts, comment_objs, heap, visible_posts,
                   displayed_post_ids, home, files, uuids, rebuilding_feed,
                   chain, action_timestamps, config, ops>>

InitSched ==
    \E docs \in {<<>>, <<UserDoc(<<"a", "">>, 1)>>}, cfg \in Configs :
       InitWith(docs, cfg)

NextSched ==
    \/ RunSession
    \/ Wait

SpecSched == InitSched /\ [][NextSched]_vars

\* ------------------------------------------------- a post with a long thread
\* an installation whose one post holds as many comments as
\* _rebuild_home_feed asks _get_visible_comments to read
LongThread == <<UserDoc(<<"a", "">>, PostCommentRead)>>

InitLong == InitWith(LongThread, DefaultConfig)

\* the bounds of the run, without a bound on the stored comments
LongBounds(st) ==
    /\ Len(st.posts) <= MaxPosts
    /\ \A k \in 1..Len(st.posts) :
          st.posts[k].likes <= MaxCount /\ st.posts[k].shares <= MaxCount

\* the agent acts on posts, the user reacts
LongAgentAct == AgentStep(PostLevel(home), LongBounds)
LongUserReaction == ReactionStep(LongBounds)

NextLong ==
    \/ Tick
    \/ CheckForNewPosts
    \/ LongAgentAct
    \/ LongUserReaction

SpecLong == InitLong /\ [][NextLong]_vars

\* ------------------------------------------------- reactions and likes
\* the user picks a reaction on a displayed comment
UserCommentReaction ==
    /\ Quiet
    /\ \E wi \in 1..Len(visible_posts), emoji \in Emojis :
          \E j \in 1..Len(visible_posts[wi].cws) :
             \E r \in {on_comment_reaction(St, wi, j, emoji, now)} :
                /\ WithinBounds(r) /\ Commit(r)
                /\ last' = [op |-> "on_comment_reaction", wi |-> wi, j |-> j,
                            c |-> visible_posts[wi].cws[j].ref,
                            changed |->
                               ReactionOf(ListOf(St, comment_objs[
                                  visible_posts[wi].cws[j].ref].reacts),
                                  CurrentUser) \notin {"", emoji}]
    /\ ops' = ops + 1
    /\ UNCHANGED <<now, rebuilding_feed, chain, action_timestamps, config>>

\* the user clicks the like button of a displayed reply
UserReplyLike ==
    /\ Quiet
    /\ \E wi \in 1..Len(visible_posts) :
          \E j \in 1..Len(visible_posts[wi].cws) :
             \E r \in 1..Len(heap[visible_posts[wi].cws[j].replies_data]) :
                \E out \in {toggle_reaction(St, wi, j, r, rebuilding_feed)} :
                   /\ WithinBounds(out) /\ Commit(out)
                   /\ last' = [op |-> "toggle_reaction", wi |-> wi, j |-> j,
                               r |-> r]
    /\ ops' = ops + 1
    /\ UNCHANGED <<now, rebuilding_feed, chain, action_timestamps, config>>

\* a user post with one stored comment that has one stored reply
RepliedDoc == [UserDoc(<<"a", "">>, 1) EXCEPT !.nreplies = 1]

InitReact ==
    \E docs \in Installations \cup {<<RepliedDoc>>} :
       InitWith(docs, DefaultConfig)

NextReact ==
    \/ CheckForNewPosts
    \/ UserAddComment
    \/ UserReply
    \/ UserAddReaction
    \/ UserCommentReaction
    \/ UserReplyLike
    \/ AgentAct

SpecReact == InitReact /\ [][NextReact]_vars

\* ------------------------------------------------- the visibility policy
\* the wall-clock time at which the policy is evaluated: 22 days after 0
PolicyClock == 22 * DaySeconds

\* the posts handed to is_post_visible: created 1, 3, 7, 21 days before
\* PolicyClock, on the second or a second earlier, or with a 'time' that
\* is no timestamp; with likes on either side of the thresholds
PolicyTimes ==
    {TimeStr(PolicyClock - d * DaySeconds - x) : d \in {1, 3, 7, 21}, x \in {0, 1}}
    \cup {BadTimeStr, NoTimeStr}
PolicyLikes == {0, 9, 10, 49, 50}
PolicyTiers ==
    SUBSET {t \in DefaultTiers : t.min_likes < 100}

InitVisible ==
    /\ \E st \in {Constructed(<<>>, PolicyClock)} :
          /\ all_posts = st.posts /\ comment_objs = st.cobj /\ heap = st.heap
          /\ visible_posts = st.widgets
          /\ displayed_post_ids = st.displayed
          /\ home = st.home /\ files = st.files /\ uuids = st.uuids
    /\ now = PolicyClock
    /\ rebuilding_feed = FALSE
    /\ chain = [depth |-> 0, completed |-> 1, active |-> FALSE]
    /\ action_timestamps = <<>>
    /\ config = DefaultConfig
    /\ ops = 0
    /\ \E t \in PolicyTimes, l \in PolicyLikes, tiers \in PolicyTiers :
          last = [op |-> "post", time |-> t, likes |-> l, tiers |-> tiers]

\* is_post_visible is called on the post
CheckVisible ==
    /\ last.op = "post"
    /\ last' = [last EXCEPT !.op = "is_post_visible"]
                  @@ [visible |-> is_post_visible(last.time, last.likes,
                                                  last.tiers, now)]
    /\ UNCHANGED <<all_posts, comment_objs, heap, visible_posts,
                   displayed_post_ids, home, files, uuids, now,
                   rebuilding_feed, chain, action_timestamps, config, ops>>

NextVisible == CheckVisible

SpecVisible == InitVisible /\ [][NextVisible]_vars

\* ------------------------------------------------------------ aged posts
\* the program starts four days after the first document was written
AgedClock == 4 * DaySeconds

\* a user post written at time 0 and one written a second before the start
AgedDoc == UserDoc(<<"a", "">>, 1)
FreshDoc == [UserDoc(<<"b", "">>, 0) EXCEPT !.time = AgedClock - 1]

InitAged ==
    \E docs \in {<<AgedDoc>>, <<AgedDoc, FreshDoc>>, <<FreshDoc>>} :
       InitAt(docs, DefaultConfig, AgedClock)

NextAged ==
    \/ CheckForNewPosts
    \/ UserAddComment
    \/ UserAddReaction
    \/ AgentAct

SpecAged == InitAged /\ [][NextAged]_vars

\* ----------------------------------------------------------------- reload
\* a post of the agent with two comments and a reply, kept in home.json
AgentDoc ==
    [folder |-> "random_user", username |-> AgentName,
     content |-> <<"a", "">>, time |-> 0, ncomments |-> 2, nreplies |-> 1,
     reported_by |-> <<>>]

\* the ids of the posts the steps so far removed from the store, as far as
\* the observation l has kept them
Deleted(l) == IF "removed" \in DOMAIN l THEN l.removed ELSE {}

\* the ids that leave the store when posts becomes posts2
Leaving(posts, posts2) ==
    {p.id : p \in Range(posts)} \ {p.id : p \in Range(posts2)}

\* the program is closed and started again: FacebookGUI.__init__ runs
\* load_posts on the documents and load_initial_posts; n counts the starts
\* that follow one another
Restart ==
    /\ ~chain.active
    /\ LET n == IF last.op = "restart" THEN last.n + 1 ELSE 1
       IN /\ n <= MaxCount
          /\ last' = [op |-> "restart", n |-> n, removed |-> Deleted(last)]
    /\ \E s1 \in {load_posts(St)} :
          \E r \in {LoadInitialPosts(s1, 1, now)} : Commit(r)
    /\ rebuilding_feed' = FALSE
    /\ action_timestamps' = <<>>
    /\ UNCHANGED <<now, chain, config, ops>>

InitReload ==
    \E docs \in Installations \cup {<<RepliedDoc>>, <<AgentDoc>>,
                                     <<UserDoc(<<"b", "">>, 1), AgentDoc>>} :
       InitWith(docs, DefaultConfig)

NextReload ==
    \/ CheckForNewPosts
    \/ UserAddComment
    \/ UserShare
    \/ UserEdit
    \/ UserAddReaction
    \/ AgentAct
    \/ Restart

SpecReload == InitReload /\ [][NextReload]_vars

\* ---------------------------------------------------------------- reports
\* the user reports a displayed post; show_post_options offers the entry
\* on the posts of others
UserReport ==
    /\ Quiet
    /\ \E wi \in 1..Len(visible_posts), user \in {CurrentUser} :
          \E r \in {report_post(St, wi, user)} :
             /\ visible_posts[wi].username # CurrentUser
             /\ Commit(r)
             /\ last' = [op |-> "report_post", wi |-> wi, user |-> user,
                          removed |-> Deleted(last)
                                         \cup Leaving(all_posts, r.posts)]
    /\ ops' = ops + 1
    /\ UNCHANGED <<now, rebuilding_feed, chain, action_timestamps, config>>

\* the user withdraws the report of a displayed post
UserUnreport ==
    /\ Quiet
    /\ \E wi \in 1..Len(visible_posts), user \in {CurrentUser} :
          \E r \in {unreport_post(St, wi, user)} :
             /\ visible_posts[wi].username # CurrentUser
             /\ Commit(r)
             /\ last' = [op |-> "unreport_post", wi |-> wi, user |-> user]
    /\ ops' = ops + 1
    /\ UNCHANGED <<now, rebuilding_feed, chain, action_timestamps, config>>

\* a stored post of a friend that n users have reported
StoredReporters ==
    <<"u1", "u2", "u3", "u4", "u5", "u6", "u7", "u8", "u9">>
ReportedDoc(n) ==
    [FriendDoc(<<"a", "">>, 0)
       EXCEPT !.reported_by = SubSeq(StoredReporters, 1, n)]

\* installations with a post one or two reports short of the threshold,
\* alone, after a user post of the same second, before a friend's post of
\* the same second, after a later post
InitReport ==
    \E n \in {ReportThreshold - 2, ReportThreshold - 1} :
       \E docs \in {<<ReportedDoc(n)>>,
                    <<UserDoc(<<"b", "">>, 0), ReportedDoc(n)>>,
                    <<ReportedDoc(n), FriendDoc(<<"b", "">>, 0)>>,
                    <<[UserDoc(<<"b", "">>, 0) EXCEPT !.time = 1],
                      ReportedDoc(n)>>} :
          InitWith(docs, DefaultConfig)

NextReport ==
    \/ UserReport
    \/ UserUnreport
    \/ UserAddComment
    \/ CheckForNewPosts
    \/ AgentAct

SpecReport == InitReport /\ [][NextReport]_vars

\* -------------------------------------------------------------- documents
\* what a document on disk can be: not there, an empty file, text that is
\* no JSON, JSON of another shape than the one written (posts.json: a list
\* of dicts; home.json: a dict with a list `posts`), a well-formed document
\* whose last element is no dict, a well-formed document
DocKinds == {"absent", "empty", "unparsable", "other_shape", "bad_entry", "ok"}

\* the post dicts load_posts has appended to all_posts when it leaves the
\* try block of one posts.json holding the well-formed dicts `docs`: an
\* exception (json.loads, item assignment on a non-dict) is caught, what
\* was appended before it stays
ReadScope(kind, docs) ==
    IF kind \in {"ok", "bad_entry"} THEN docs ELSE <<>>

\* load_home_feed and the loop of load_posts over its result: json.load
\* failing gives the default structure; the calls of .get on the result and
\* on every entry are outside any try block
ReadFeed(kind, entries) ==
    IF kind \in {"other_shape", "bad_entry"}
    THEN [raised |-> TRUE, posts |-> <<>>]
    ELSE [raised |-> FALSE, posts |-> IF kind = "ok" THEN entries ELSE <<>>]

\* load_posts on documents of the given kinds
load_documents(st, kinds) ==
    Let(ReadFeed(kinds.feed, st.home), LAMBDA feed :
        IF feed.raised THEN [st EXCEPT !.raised = TRUE]
        ELSE load_posts([st EXCEPT
                           !.files = [f \in Scopes |->
                                         ReadScope(kinds[f], st.files[f])],
                           !.home = feed.posts]))

\* the documents a session with a user post, a friend's post and a post of
\* the agent has left
LeftDocs ==
    Constructed(<<UserDoc(<<"a", "">>, 1), FriendDoc(<<"b", "">>, 0),
                  AgentDoc>>, 1)

\* before FacebookGUI.__init__ runs: the documents on disk
InitDocuments ==
    \E user \in DocKinds, friend \in DocKinds, feed \in DocKinds :
       /\ last = [op |-> "documents",
                  kinds |-> [f \in Scopes \cup {"feed"} |->
                                IF f = "user" THEN user
                                ELSE IF f = "feed" THEN feed ELSE friend]]
       /\ all_posts = <<>>
       /\ comment_objs = <<>>
       /\ heap = <<>>
       /\ visible_posts = <<>>
       /\ displayed_post_ids = {}
       /\ home = IF feed \in {"ok", "bad_entry"} THEN LeftDocs.home ELSE <<>>
       /\ files = [f \in Scopes |->
                     IF last.kinds[f] \in {"ok", "bad_entry"}
                     THEN LeftDocs.files[f] ELSE <<>>]
       /\ uuids = LeftDocs.uuids
       /\ now = 1
       /\ rebuilding_feed = FALSE
       /\ chain = [depth |-> 0, completed |-> 1, active |-> FALSE]
       /\ action_timestamps = <<>>
       /\ config = DefaultConfig
       /\ ops = 0

\* FacebookGUI.__init__ calls load_posts; an exception leaves __init__
LoadDocuments ==
    /\ last.op = "documents"
    /\ \E r \in {load_documents(St, last.kinds)} :
          /\ IF r.raised
             THEN UNCHANGED <<all_posts, comment_objs, heap, visible_posts,
                              displayed_post_ids, home, files, uuids>>
             ELSE Commit(r)
          /\ last' = [op |-> "load_posts", kinds |-> last.kinds,
                      raised |-> r.raised]
    /\ UNCHANGED <<now, rebuilding_feed, chain, action_timestamps, config, ops>>

NextDocuments == LoadDocuments

SpecDocuments == InitDocuments /\ [][NextDocuments]_vars

\* ------------------------------------------------------------ the proposer
\* error_strategies of the context.json the setup writes
DefaultStrategies ==
    [JSON_PARSE_ERROR |-> "retry", RATE_LIMIT_EXCEEDED |-> "backoff",
     HALLUCINATION_DETECTED |-> "log_and_skip", EMPTY_RESPONSE |-> "terminate",
     INVALID_POST_ID |-> "skip_and_continue"]

\* a context.json whose keys are names of exception classes
EditedStrategies ==
    [ResourceExhausted |-> "backoff", OutputParserException |-> "retry",
     ServiceUnavailable |-> "terminate"]

\* the engine after __init__: the options, self.llm ("no_library": the
\* import check failed, "no_llm": no api.json, no key or the constructor
\* raised, "ready") and error_context["error_strategies"]
EngineOf(cfg, llm, strategies) ==
    [work |-> cfg.work, actions_per_minute |-> cfg.actions_per_minute,
     actions_per_cent |-> cfg.actions_per_cent,
     decline_actions |-> cfg.decline_actions,
     decline_actions_cent |-> cfg.decline_actions_cent,
     llm |-> llm, error_strategies |-> strategies]

Engines ==
    {EngineOf(DefaultConfig, "no_library", DefaultStrategies),
     EngineOf(DefaultConfig, "no_llm", DefaultStrategies),
     EngineOf(DefaultConfig, "ready", DefaultStrategies),
     EngineOf(DefaultConfig, "ready", EditedStrategies),
     EngineOf([DefaultConfig EXCEPT !.actions_per_minute = 1], "ready",
              DefaultStrategies)}

\* the classes of the exceptions chain.invoke raises in the model: rate
\* limit, authentication, availability, a response the chain cannot parse
ErrorTypes ==
    {"ResourceExhausted", "PermissionDenied", "ServiceUnavailable",
     "OutputParserException"}

NoError == "none"

\* what one call of chain.invoke can come to: a JSON answer holding a list
\* of proposals, text that is no JSON, JSON of another format, an exception
Answer(kind, batch, type) == [kind |-> kind, batch |-> batch, type |-> type]

Answers(feed) ==
    {Answer("batch", b, NoError) :
        b \in {<<>>,
               <<Act("make_post", NoPost, NoPost, NoComment, AgentBody, NoType)>>}
              \cup {<<Act("comment_post", p, NoPost, NoComment, AgentBody, NoType)>>
                       : p \in ValidPostIds(feed)}}
    \cup {Answer("unparsable", <<>>, NoError),
          Answer("other_format", <<>>, NoError)}
    \cup {Answer("error", <<>>, t) : t \in ErrorTypes}

\* the strategy generate_actions and _handle_error arrive at for an
\* exception of class `type`
StrategyOf(type, strategies) ==
    IF type \in DOMAIN strategies THEN strategies[type] ELSE "terminate"

\* _handle_error: does it raise the error again ("terminate"); every other
\* strategy prints and returns []
handle_error(type, strategies) == StrategyOf(type, strategies) = "terminate"

\* generate_actions: how often the proposer was invoked, whether an
\* exception leaves the method, the proposals parsed and those validated
generate_actions(engine, feed, answer) ==
    IF engine.llm # "ready"
    THEN [invoked |-> 0, raised |-> FALSE, proposed |-> <<>>,
          validated |-> <<>>]
    ELSE IF answer.kind = "error"
    THEN [invoked |-> 1,
          raised |-> handle_error(answer.type, engine.error_strategies),
          proposed |-> <<>>, validated |-> <<>>]
    ELSE IF answer.kind = "batch"
    THEN [invoked |-> 1, raised |-> FALSE, proposed |-> answer.batch,
          validated |-> validate_actions(answer.batch, ValidPostIds(feed),
                                         ValidCommentIds(feed))]
    ELSE [invoked |-> 1, raised |-> FALSE, proposed |-> <<>>,
          validated |-> <<>>]

\* run_session of an engine whose proposer answers `answer` and whose
\* home.json can be read or not: an exception of json.load or of
\* generate_actions leaves run_session after the throttle test
engine_session(engine, stamps, time, feed, readable, roll, answer) ==
    IF SessionGate(engine, stamps, time, roll) \in {"paused", "throttled"}
       \/ (readable /\ SessionGate(engine, stamps, time, roll) = "skipped")
    THEN {[gate |-> o.gate, invoked |-> 0, raised |-> FALSE,
           actions |-> o.actions, stamps |-> o.stamps] :
             o \in run_session(engine, stamps, time, feed, roll, <<>>)}
    ELSE IF ~readable
    THEN {[gate |-> "unreadable", invoked |-> 0, raised |-> TRUE,
           actions |-> <<>>, stamps |-> Pruned(engine, stamps, time)]}
    ELSE IF generate_actions(engine, feed, answer).raised
    THEN {[gate |-> "go", invoked |-> 1, raised |-> TRUE,
           actions |-> <<>>, stamps |-> Pruned(engine, stamps, time)]}
    ELSE {[gate |-> "go",
           invoked |-> generate_actions(engine, feed, answer).invoked,
           raised |-> FALSE, actions |-> o.actions, stamps |-> o.stamps] :
             o \in run_session(engine, stamps, time, feed, roll,
                      generate_actions(engine, feed, answer).proposed)}

\* the errors the proposer has reported so far, as the record of the last
\* operation carries them
Reported(l) == IF "errors" \in DOMAIN l THEN l.errors ELSE {}

\* a handler without the except clause: the exception leaves it
Unguarded(raised) == raised

\* `except Exception` of run_random_user_session: does an exception raised
\* in its try block leave the handler
Propagates(raised) == FALSE

\* an exception that leaves a slot of the timer ends the process
Ended == "propagated" \in DOMAIN last /\ last.propagated

\* run_random_user_session of the timer: run_session, then the loop over
\* the actions returned, both inside one try block
RunCycle ==
    /\ ~chain.active /\ ops < MaxSessions
    /\ ~Ended
    /\ \E roll \in Rolls, readable \in BOOLEAN, answer \in Answers(home) :
          \E out \in engine_session(config, action_timestamps, now, home,
                                    readable, roll, answer) :
          \E r \in {ExecuteAll(St, out.actions, now, <<>>)} :
             /\ LongBounds(r.st)
             /\ Commit(r.st)
             /\ action_timestamps' = out.stamps
             /\ last' = [op |-> "cycle", at |-> now, gate |-> out.gate,
                         empty_feed |-> home = <<>>,
                         roll |-> roll, answer |-> answer.kind,
                         type |-> answer.type, invoked |-> out.invoked,
                         error |-> out.raised \/ r.raised,
                         propagated |-> Propagates(out.raised \/ r.raised),
                         accepted |-> out.actions, effects |-> r.effects,
                         errors |-> Reported(last) \cup
                            IF out.invoked = 1 /\ answer.kind = "error"
                            THEN {[at |-> now, type |-> answer.type]}
                            ELSE {}]
    /\ ops' = ops + 1
    /\ UNCHANGED <<now, rebuilding_feed, chain, config>>

\* half a minute passes between two runs of the handler
Idle ==
    /\ ~chain.active
    /\ now < 1 + MaxWaits * (RateWindow \div 2)
    /\ now' = now + RateWindow \div 2
    /\ last' = [last EXCEPT !.op = "idle"]
    /\ UNCHANGED <<all_posts, comment_objs, heap, visible_posts,
                   displayed_post_ids, home, files, uuids, rebuilding_feed,
                   chain, action_timestamps, config, ops>>

InitProposer ==
    \E docs \in {<<>>, <<UserDoc(<<"a", "">>, 1)>>, LongThread},
       engine \in Engines :
       InitWith(docs, engine)

NextProposer == RunCycle \/ Idle

SpecProposer == InitProposer /\ [][NextProposer]_vars

\* ------------------------------------------------------ writes that fail
\* add_reaction while the documents can be opened for writing or not: the
\* widget and the store are changed first; open(path, 'w') raising in
\* save_posts and in save_home_feed leaves the documents as they were, and
\* both calls sit in a try/except of add_reaction
add_reaction_on_disk(st, wi, emoji, time, writable) ==
    Let(add_reaction(st, wi, emoji, time), LAMBDA r :
        IF writable THEN r
        ELSE [r EXCEPT !.files = st.files, !.home = st.home,
                       !.rebuilds = st.rebuilds])

\* the store post add_reaction changes for widget w: the first one matching
\* the widget's id or its time, 0 if none
ReactedPost(st, w) ==
    FirstIdx(st.posts, LAMBDA p : p.id = w.post_id \/ p.time = w.time_str)

\* the posts changed by reactions whose rebuild failed, since the last
\* rebuild that succeeded, as the record of the last operation carries them
Pending(l) == IF "pending" \in DOMAIN l THEN l.pending ELSE {}

\* an exception has left a slot of the interface, which ends the process
Aborted == "escaped" \in DOMAIN last /\ last.escaped

\* the user picks a reaction on a displayed post while the documents can
\* be written or not
ReactionOnDisk ==
    /\ Quiet /\ ~Aborted
    /\ \E wi \in 1..Len(visible_posts), emoji \in Emojis,
          writable \in BOOLEAN :
          \E r \in {add_reaction_on_disk(St, wi, emoji, now, writable)} :
             /\ LongBounds(r) /\ Commit(r)
             /\ last' = [op |-> "add_reaction", wi |-> wi, emoji |-> emoji,
                         k |-> ReactedPost(St, visible_posts[wi]),
                         was |-> visible_posts[wi].user_reaction,
                         failed |-> ~writable, escaped |-> r.raised,
                         rebuilds |-> r.rebuilds,
                         pending |-> IF r.rebuilds > 0 THEN {}
                                     ELSE Pending(last) \cup
                                          ({ReactedPost(St, visible_posts[wi])}
                                              \ {0})]
    /\ ops' = ops + 1
    /\ UNCHANGED <<now, rebuilding_feed, chain, action_timestamps, config>>

\* add_comment_from_input, the slot of the comment field: add_comment with
\* nothing around it that catches an exception of save_posts or of
\* _rebuild_home_feed
SubmitComment ==
    /\ Quiet /\ ~Aborted
    /\ \E wi \in 1..Len(visible_posts) :
          \E s0 \in {[St EXCEPT !.uuids = @ + 1]} :
          \E r \in {add_comment(s0, wi, CurrentUser, NewUuid(St), now,
                                 rebuilding_feed)} :
             /\ LongBounds(r) /\ Commit(r)
             /\ last' = [op |-> "add_comment", wi |-> wi, emoji |-> "",
                         k |-> PostOfWidget(visible_posts[wi]),
                         was |-> visible_posts[wi].user_reaction,
                         failed |-> r.raised, escaped |-> r.raised,
                         rebuilds |-> r.rebuilds,
                         pending |-> IF r.rebuilds > 0 THEN {}
                                     ELSE Pending(last) \cup
                                          ({PostOfWidget(visible_posts[wi])}
                                              \ {0})]
    /\ ops' = ops + 1
    /\ UNCHANGED <<now, rebuilding_feed, chain, action_timestamps, config>>

\* installations with one post, with two posts of one second, with two
\* posts of different seconds, with a post holding as many comments as a
\* rebuild reads
InitDisk ==
    \E docs \in {<<UserDoc(<<"a", "">>, 1)>>,
                 <<UserDoc(<<"a", "">>, 0), FriendDoc(<<"b", "">>, 1)>>,
                 <<UserDoc(<<"a", "">>, 0),
                   [FriendDoc(<<"b", "">>, 1) EXCEPT !.time = 1]>>,
                 LongThread} :
       InitWith(docs, DefaultConfig)

NextDisk == ReactionOnDisk \/ SubmitComment

SpecDisk == InitDisk /\ [][NextDisk]_vars

\* ------------------------------------------------------ the feed snapshot
\* _construct_user_prompt: the posts of the feed document the proposer is
\* shown, the first feed_read of them
construct_user_prompt(feed, feed_read) ==
    SubSeq(feed, 1, IF Len(feed) < feed_read THEN Len(feed) ELSE feed_read)

\* an engine whose config.json sets traffic_control.feed_read
ReadingEngine(cfg, feed_read) ==
    [work |-> cfg.work, actions_per_minute |-> cfg.actions_per_minute,
     actions_per_cent |-> cfg.actions_per_cent,
     decline_actions |-> cfg.decline_actions,
     decline_actions_cent |-> cfg.decline_actions_cent,
     feed_read |-> feed_read]

\* feeds of one and of two posts, read by the default engine and by one
\* that is shown a single post
InitSnapshot ==
    \E docs \in {<<UserDoc(<<"a", "">>, 1)>>,
                 <<UserDoc(<<"a", "">>, 1), FriendDoc(<<"b", "">>, 1)>>},
       feed_read \in {1, DefaultFeedRead} :
       InitWith(docs, ReadingEngine(DefaultConfig, feed_read))

NextSnapshot == RunSession \/ Wait

SpecSnapshot == InitSnapshot /\ [][NextSnapshot]_vars

\* ------------------------------------------------------ the reply views
\* the order of Python strings on the names that like replies
NameBefore(u, v) == u = "Friend" /\ v = CurrentUser

\* a < b for two Python lists of names: lexicographic, a proper prefix
\* being the smaller list
ListLess(a, b) ==
    \E i \in 1..(Len(a) + 1) :
       /\ i <= Len(b)
       /\ \A j \in 1..(i - 1) : a[j] = b[j]
       /\ i = Len(a) + 1 \/ NameBefore(a[i], b[i])

\* sorted(replies_data, key=lambda x: x.get('likes', 0), reverse=True): the
\* key is the reply's likes list; the sort is stable, equal keys keep the
\* order of the list
SortedByLikes(replies) ==
    LET before(i, j) == \/ ListLess(replies[j].likes, replies[i].likes)
                        \/ replies[i].likes = replies[j].likes /\ i < j
        place(i) == 1 + Cardinality({j \in 1..Len(replies) : before(j, i)})
    IN [p \in 1..Len(replies) |->
          replies[CHOOSE i \in 1..Len(replies) : place(i) = p]]

\* CommentWidget.init_replies: the reply widgets of the collapsed state and
\* remaining_replies
init_replies(replies_data) ==
    IF replies_data = <<>> THEN [shown |-> <<>>, remaining_replies |-> <<>>]
    ELSE [shown |-> <<SortedByLikes(replies_data)[1]>>,
          remaining_replies |-> Tail(SortedByLikes(replies_data))]

\* CommentWidget.toggle_replies from the collapsed state init_replies left:
\* the reply widgets of the expanded state
toggle_replies(replies_data, remaining_replies) ==
    IF remaining_replies # <<>> THEN SortedByLikes(replies_data)
    ELSE replies_data

\* the user collapses the replies of a displayed comment and expands them
\* again
ToggleReplies ==
    /\ Quiet
    /\ \E wi \in 1..Len(visible_posts) :
          \E j \in 1..Len(visible_posts[wi].cws) :
             \E data \in {heap[visible_posts[wi].cws[j].replies_data]} :
             \E view \in {init_replies(data)} :
                last' = [op |-> "toggle_replies", wi |-> wi, j |-> j,
                         stored |-> data, collapsed |-> view.shown,
                         expanded |-> toggle_replies(data,
                                         view.remaining_replies)]
    /\ UNCHANGED <<all_posts, comment_objs, heap, visible_posts,
                   displayed_post_ids, home, files, uuids, now,
                   rebuilding_feed, chain, action_timestamps, config, ops>>

\* a user post whose comment has one stored reply, or two
InitReplies ==
    \E n \in 1..2 :
       InitWith(<<[UserDoc(<<"a", "">>, 1) EXCEPT !.nreplies = n]>>,
                DefaultConfig)

NextReplies ==
    UserReply \/ UserReplyLike \/ UserCommentReaction \/ ToggleReplies \/ Tick

SpecReplies == InitReplies /\ [][NextReplies]_vars

\* ---------------------------------------------------------------- removal
\* the user deletes a displayed post; show_post_options offers the entry on
\* the user's own posts
UserDelete ==
    /\ Quiet
    /\ \E wi \in 1..Len(visible_posts) :
          /\ visible_posts[wi].username = CurrentUser
          /\ \E r \in {delete_post(St, wi)} :
                /\ Commit(r)
                /\ last' = [op |-> "delete_post", wi |-> wi,
                             removed |-> Deleted(last)
                                            \cup Leaving(all_posts, r.posts)]
    /\ ops' = ops + 1
    /\ UNCHANGED <<now, rebuilding_feed, chain, action_timestamps, config>>

\* installations: the user's only post; a friend's only post, one report
\* short of the threshold; that post beside a later post of the friend;
\* two user posts of one second; a user post and the friend's reported
\* post of one second
InitRemoval ==
    \E docs \in {<<UserDoc(<<"a", "">>, 1)>>,
                 <<ReportedDoc(ReportThreshold - 1)>>,
                 <<ReportedDoc(ReportThreshold - 1),
                   [FriendDoc(<<"b", "">>, 0) EXCEPT !.time = 1]>>,
                 <<UserDoc(<<"a", "">>, 0), UserDoc(<<"b", "">>, 1)>>,
                 <<UserDoc(<<"b", "">>, 0),
                   ReportedDoc(ReportThreshold - 1)>>} :
       InitWith(docs, DefaultConfig)

NextRemoval ==
    \/ UserDelete
    \/ UserReport
    \/ UserUnreport
    \/ UserAddComment
    \/ AddPost
    \/ Restart

SpecRemoval == InitRemoval /\ [][NextRemoval]_vars

\* ------------------------------------------------------ the rebuild flags
\* the rebuilds that failed so far, as the record of the last operation
\* carries them (counted up to MaxCount)
Failures(l) == IF "failures" \in DOMAIN l THEN l.failures ELSE 0

\* what a handler leaves for the next one to see: whether its rebuild
\* request, made with _rebuilding_feed = flag, was skipped, whether the
\* rebuild raised, and whether the exception left the handler
Observed(op, flag, raised, escaped) ==
    [op |-> op, skipped |-> RebuildSkipped(flag), raised |-> raised,
     escaped |-> escaped,
     failures |-> Min({MaxCount, Failures(last) + IF raised THEN 1 ELSE 0})]

\* an agent action of a session: the handler ends with a rebuild request
\* and the try block of run_random_user_session keeps an exception inside
FlagAgentAct ==
    /\ Quiet /\ ~Aborted
    /\ \E a \in PostLevel(home) :
          /\ Accepts(a, ValidPostIds(home), ValidCommentIds(home))
          /\ \E r \in {ExecuteAll(St, <<a>>, now, <<>>)} :
                /\ LongBounds(r.st)
                /\ Commit(r.st)
                /\ rebuilding_feed' =
                      rebuilding_feed_after(rebuilding_feed, r.raised)
                /\ last' = Observed("agent", rebuilding_feed, r.raised, FALSE)
    /\ ops' = ops + 1
    /\ UNCHANGED <<now, chain, action_timestamps, config>>

\* the user deletes an own post: the rebuild request of delete_post is not
\* inside a try block
FlagDelete ==
    /\ Quiet /\ ~Aborted
    /\ \E wi \in 1..Len(visible_posts) :
          /\ visible_posts[wi].username = CurrentUser
          /\ \E r \in {delete_post(St, wi)} :
                /\ Commit(r)
                /\ rebuilding_feed' =
                      rebuilding_feed_after(rebuilding_feed, r.raised)
                /\ last' = Observed("delete_post", rebuilding_feed, r.raised,
                                    r.raised)
    /\ ops' = ops + 1
    /\ UNCHANGED <<now, chain, action_timestamps, config>>

\* the program is started again: __init__ clears both flags and runs
\* load_posts, whose rebuild stands in try/finally; an exception leaves the
\* constructor
FlagLoad ==
    /\ Quiet /\ ~Aborted
    /\ \E s1 \in {load_posts(St)} :
          /\ \E r \in {IF s1.raised THEN s1
                       ELSE LoadInitialPosts(s1, 1, now)} : Commit(r)
          /\ rebuilding_feed' = rebuilding_feed_after(FALSE, s1.raised)
          /\ last' = [Observed("load_posts", FALSE, s1.raised, s1.raised)
                        EXCEPT !.failures = Failures(last)]
                     @@ [loading_posts |-> loading_posts_after(s1.raised)]
    /\ action_timestamps' = <<>>
    /\ ops' = ops + 1
    /\ UNCHANGED <<now, chain, config>>

\* a handler enters _rebuild_home_feed
FlagEnter == ~Aborted /\ RebuildEnter

\* installations with a thread at the length the rebuild can read, alone
\* or beside a later post of the user
InitFlags ==
    \E docs \in {LongThread,
                 LongThread \o <<[UserDoc(<<"b", "">>, 0) EXCEPT !.time = 1]>>,
                 <<UserDoc(<<"a", "">>, 1)>>} :
       InitWith(docs, DefaultConfig)

NextFlags ==
    \/ FlagAgentAct
    \/ FlagDelete
    \/ FlagLoad
    \/ FlagEnter
    \/ RebuildNested
    \/ RebuildExit

SpecFlags == InitFlags /\ [][NextFlags]_vars

\* ------------------------------------------------------------------- claims
\* what a rebuild of the current store would write to home.json
Materialized ==
    [k \in 1..Len(all_posts) |-> HomeEntry(St, all_posts[k])]

\* C1: an invocation of _rebuild_home_feed made while another invocation is
\* in progress (the flag is set) writes neither the feed document nor the
\* post documents, and when a chain of nested invocations has unwound
\* exactly one rebuild has completed.
C1_NestedRebuildIsNoOp ==
    /\ [][last'.op = "rebuild_nested" => (home' = home /\ files' = files)]_vars
    /\ [](~chain.active => chain.completed = 1)

\* a second nested invocation has returned, in a state where running the
\* body would have rewritten the feed document
C1_Witness ==
    /\ last.op = "rebuild_nested"
    /\ chain.depth = 2
    /\ rebuilding_feed
    /\ home # Materialized

\* the elements of list object l in heap h
ItemsOf(h, l) == IF l = 0 THEN <<>> ELSE h[l]

\* some displayed PostWidget was built from store post k
PostShown(k) ==
    \E i \in 1..Len(visible_posts) : visible_posts[i].of = all_posts[k].pid

\* some displayed CommentWidget refers to comment dict c
CommentShown(c) ==
    \E i \in 1..Len(visible_posts) :
       \E j \in 1..Len(visible_posts[i].cws) : visible_posts[i].cws[j].ref = c

\* C2: no step of any operation binds a different list object to the
\* comments_list or reacts of a stored post, or to the replies or reacts of
\* a stored comment, while a displayed widget holds that post or comment;
\* the lists change by in-place append and remove only.
C2_ListsNeverReplaced ==
    [][/\ \A k \in 1..Len(all_posts) : PostShown(k) =>
             /\ all_posts[k].cl # 0 => all_posts'[k].cl = all_posts[k].cl
             /\ all_posts'[k].reacts = all_posts[k].reacts
       /\ \A c \in 1..Len(comment_objs) : CommentShown(c) =>
             /\ comment_objs'[c].replies = comment_objs[c].replies
             /\ comment_objs'[c].reacts = comment_objs[c].reacts]_vars

\* the comments_list of store post k holds more comments after the step
CommentAppended(k) ==
    /\ \/ last'.op = "add_comment"
       \/ last'.op = "agent" /\ last'.action.tool = "comment_post"
    /\ Len(ItemsOf(heap', all_posts'[k].cl)) > Len(ItemsOf(heap, all_posts[k].cl))

\* C3: after add_comment or an agent comment_post has appended a comment to
\* a post, the comment list every widget built from that post obtained
\* before the append is the very list the store binds to comments_list,
\* and it contains the new comment.
C3_PriorReferencesSeeAppend ==
    [][\A k \in 1..Len(all_posts) : CommentAppended(k) =>
          \A i \in 1..Len(visible_posts) :
             visible_posts[i].of = all_posts[k].pid =>
                /\ visible_posts'[i].comments_list = all_posts'[k].cl
                /\ \E c \in Range(ItemsOf(heap', visible_posts'[i].comments_list)) :
                      c > Len(comment_objs)]_vars

\* the timestamps of action_timestamps inside the trailing minute
InWindow == {i \in 1..Len(action_timestamps) :
                action_timestamps[i] > now - RateWindow}

\* the step is a scheduler cycle
Cycle == last'.op = "session"

\* C4: a scheduler cycle with a per-minute cap apm > 0 that starts with apm
\* or more action timestamps inside the trailing 60 seconds accepts no
\* action and leaves the store as it was.
C4_RateCapRejectsCycle ==
    [][(Cycle /\ config.work # 0 /\ config.actions_per_minute > 0
              /\ Cardinality(InWindow) >= config.actions_per_minute) =>
          /\ last'.accepted = <<>>
          /\ all_posts' = all_posts /\ comment_objs' = comment_objs
          /\ heap' = heap]_vars

\* a cycle was throttled with exactly three timestamps inside the window
\* under the default cap of 3, although the roll passed
C4_Witness ==
    /\ last.op = "session" /\ last.gate = "throttled"
    /\ config.actions_per_minute = DefaultApm
    /\ Len(action_timestamps) = DefaultApm
    /\ \A i \in 1..Len(action_timestamps) :
          action_timestamps[i] > now - RateWindow

\* the proposal names a post, an original post or a comment that the
\* snapshot (the feed document the cycle read) does not hold
OutsideSnapshot(a) ==
    \/ HasId(a.post_id) /\ a.post_id \notin ValidPostIds(home)
    \/ HasId(a.original_post_id) /\ a.original_post_id \notin ValidPostIds(home)
    \/ HasComment(a.comment_id) /\ a.comment_id \notin ValidCommentIds(home)

\* the same, with the original post id looked at for quote_post only
DroppedForTarget(a) ==
    \/ HasId(a.post_id) /\ a.post_id \notin ValidPostIds(home)
    \/ /\ a.tool = "quote_post" /\ HasId(a.original_post_id)
       /\ a.original_post_id \notin ValidPostIds(home)
    \/ HasComment(a.comment_id) /\ a.comment_id \notin ValidCommentIds(home)

\* proposal a was executed in the step and changed the store
Applied(a) ==
    \E j \in 1..Len(last'.accepted) :
       last'.accepted[j] = a /\ last'.effects[j]

C6_TargetLevel ==
    [][(Cycle /\ last'.gate = "go") =>
          \A i \in 1..Len(last'.validated) :
             /\ last'.validated[i].tool \notin CommentLevelTools =>
                   ~HasComment(last'.validated[i].comment_id)
             /\ last'.validated[i].tool \in CommentLevelTools =>
                   /\ last'.validated[i].comment_id \in ValidCommentIds(home)
                   /\ ~HasId(last'.validated[i].post_id)]_vars

\* the proposal lacks a field its tool requires
LacksRequired(a) ==
    \/ a.tool \in {"post_reactions", "comment_post", "repost_post"}
          /\ ~HasId(a.post_id)
    \/ a.tool = "quote_post" /\ ~HasId(a.original_post_id)
    \/ a.tool \in {"make_post", "comment_post", "reply_comment", "quote_post"}
          /\ ~HasContent(a.content)
    \/ a.tool \in {"post_reactions", "react_comment"} /\ ~HasType(a.type)
    \/ a.tool \in CommentLevelTools /\ ~HasComment(a.comment_id)

\* C7: a proposal lacking a field its tool requires is rejected by
\* validation, and every validated action that is executed changes the
\* store.
C7_RequiredFields ==
    [][(Cycle /\ last'.gate = "go") =>
          /\ \A i \in 1..Len(last'.proposed) :
                LacksRequired(last'.proposed[i]) =>
                   last'.proposed[i] \notin Range(last'.validated)
          /\ \A j \in 1..Len(last'.accepted) : last'.effects[j]]_vars

\* the store post the widget at index wi was built from
SourceOf(wi) ==
    FirstIdx(all_posts, LAMBDA p : p.pid = visible_posts[wi].of)

\* the step is a repost or a quote of store post k
SharesPost(k) ==
    \/ /\ last'.op = "handle_share"
       /\ last'.share_type \in {"repost", "quote"}
       /\ k = SourceOf(last'.wi)
    \/ /\ last'.op = "agent"
       /\ last'.action.tool \in {"repost_post", "quote_post"}
       /\ k = last'.k

\* C8: every repost or quote of a post, by handle_share or by an agent
\* action, leaves the post's share counter in the store one above its value
\* before the operation, and the new repost or quote has share counter 0.
C8_ShareCountsOnce ==
    [][\A k \in 1..Len(all_posts) : SharesPost(k) =>
          /\ all_posts'[k].shares = all_posts[k].shares + 1
          /\ Len(all_posts') = Len(all_posts) + 1
          /\ all_posts'[Len(all_posts')].shares = 0]_vars

\* C9: after every completed operation the feed document has one entry per
\* store post, in store order, and each entry's likes and comment count
\* equal the counters of its post, which count attributed user reactions
\* and count-only agent likes together.
C9_FeedCountersMatchStore ==
    /\ Len(home) = Len(all_posts)
    /\ \A k \in 1..Len(all_posts) :
          /\ home[k].id = all_posts[k].id
          /\ home[k].likes = all_posts[k].likes
          /\ home[k].comments = all_posts[k].comments

\* C10: an agent post_reactions adds exactly 1 to the like counter of the
\* post it targets, and an agent react_comment adds exactly 1 to the like
\* counter of the comment it targets; the reacts lists, every other post and
\* every other comment stay as they were.
C10_AgentReactionCountsOnly ==
    [][/\ (last'.op = "agent" /\ last'.action.tool = "post_reactions"
              /\ last'.k # 0) =>
             /\ all_posts' = [all_posts EXCEPT ![last'.k].likes = @ + 1]
             /\ comment_objs' = comment_objs
             /\ heap' = heap
       /\ (last'.op = "agent" /\ last'.action.tool = "react_comment"
              /\ last'.c # 0) =>
             /\ comment_objs' = [comment_objs EXCEPT ![last'.c].likes = @ + 1]
             /\ all_posts' = all_posts
             /\ heap' = heap]_vars

\* an agent like landed on a comment, after an agent like had landed on a
\* post that carries an attributed user reaction
C10_Witness ==
    /\ last.op = "agent" /\ last.action.tool = "react_comment"
    /\ last.c # 0
    /\ comment_objs[last.c].likes = 1
    /\ \E k \in 1..Len(all_posts) :
          /\ all_posts[k].likes = 2
          /\ Len(ItemsOf(heap, all_posts[k].reacts)) = 1

\* no two entries of a reacts list carry one username
OnePerUser(reacts) ==
    \A x, y \in 1..Len(reacts) :
       reacts[x].username = reacts[y].username => x = y

\* C11: in every reachable state the reacts list of every post and of every
\* comment holds at most one entry per username, and the likes list of
\* every reply holds every username at most once.
C11_OneReactionPerUser ==
    /\ \A k \in 1..Len(all_posts) :
          OnePerUser(ItemsOf(heap, all_posts[k].reacts))
    /\ \A c \in 1..Len(comment_objs) :
          /\ OnePerUser(ItemsOf(heap, comment_objs[c].reacts))
          /\ \A r \in 1..Len(ItemsOf(heap, comment_objs[c].replies)) :
                \A x, y \in 1..Len(heap[comment_objs[c].replies][r].likes) :
                   heap[comment_objs[c].replies][r].likes[x]
                      = heap[comment_objs[c].replies][r].likes[y] => x = y

\* the user has changed the emoji of a reaction on a comment: the reacts
\* list of the comment holds the one entry, with the new emoji
C11_Witness ==
    /\ last.op = "on_comment_reaction" /\ last.changed
    /\ Len(ItemsOf(heap, comment_objs[last.c].reacts)) = 1
    /\ comment_objs[last.c].likes = 1

\* the age of the post of `last` in whole seconds
AgeOf(time_str) == now - time_str.at

\* C12: is_post_visible returns true iff the post's timestamp is unparsable
\* or no string, or some configured tier has likes >= min_likes and
\* age <= max_days; a 1-day-old post without likes is visible under the
\* tier (0 likes, 3 days), invisible under the tier (50 likes, 21 days)
\* alone, and visible under the two together.
C12_VisibleIffSomeTier ==
    last.op = "is_post_visible" =>
       /\ last.visible <=>
             \/ last.time \in {BadTimeStr, NoTimeStr}
             \/ \E t \in last.tiers :
                   /\ last.likes >= t.min_likes
                   /\ AgeOf(last.time) <= t.max_days * DaySeconds
       /\ (last.time = TimeStr(now - DaySeconds) /\ last.likes = 0) =>
             /\ last.tiers = {[min_likes |-> 0, max_days |-> 3]}
                   => last.visible
             /\ last.tiers = {[min_likes |-> 50, max_days |-> 21]}
                   => ~last.visible
             /\ last.tiers = {[min_likes |-> 0, max_days |-> 3],
                              [min_likes |-> 50, max_days |-> 21]}
                   => last.visible

\* a 1-day-old post without likes was judged under the tier (50 likes,
\* 21 days) alone and found invisible
C12_Witness ==
    /\ last.op = "is_post_visible"
    /\ last.time = TimeStr(now - DaySeconds) /\ last.likes = 0
    /\ last.tiers = {[min_likes |-> 50, max_days |-> 21]}
    /\ ~last.visible

\* C13: the feed document a rebuild has produced holds an entry for a post
\* only if the post satisfies is_post_visible at that time (no time passes
\* between a rebuild and the next state of SpecAged).
C13_FeedHoldsVisibleOnly ==
    \A i \in 1..Len(home) :
       is_post_visible(TimeStr(home[i].timestamp), home[i].likes,
                       DefaultTiers, now)

\* the store by value: the document of every post of all_posts, in order
StoreDocs == [k \in 1..Len(all_posts) |-> PostDoc(St, all_posts[k])]

\* C14: a load that follows a load, with nothing done in between, leaves
\* the store with the same contents and the feed document with the same
\* posts (the per-scope documents stay as they are, too)
C14_LoadTwiceSame ==
    [][(last'.op = "restart" /\ last'.n >= 2)
          => /\ StoreDocs' = StoreDocs
             /\ home' = home
             /\ files' = files]_vars

\* a second start in a row has loaded a post of the agent with two comments
\* and a post read from posts.json
C14_Witness ==
    /\ last.op = "restart" /\ last.n = 2
    /\ \E k \in 1..Len(all_posts) :
          /\ all_posts[k].folder = "random_user"
          /\ Len(heap[all_posts[k].cl]) = 2
    /\ \E k \in 1..Len(all_posts) : all_posts[k].folder = "user"

\* the ids of the store posts of one scope, in store order
PostIds(posts, f) ==
    [i \in 1..Len(SelectSeq(posts, LAMBDA p : p.folder = f)) |->
        SelectSeq(posts, LAMBDA p : p.folder = f)[i].id]

\* C15: the id of a post is the triple it was created with, and no step
\* changes the id of a post of the store: a handler (edit, reaction,
\* comment, share, with its rebuild and save) leaves every post dict its
\* id, and a reload gives every scope the ids it had, in the order of its
\* document (the agent's posts: the same ids)
C15_IdAssignedOnce ==
    [][IF last'.op = "restart"
       THEN /\ \A f \in Scopes : PostIds(all_posts', f) = PostIds(all_posts, f)
            /\ Range(PostIds(all_posts', "random_user"))
                  = Range(PostIds(all_posts, "random_user"))
       ELSE \A k \in 1..Len(all_posts) :
               \E k2 \in 1..Len(all_posts') :
                  /\ all_posts'[k2].pid = all_posts[k].pid
                  /\ all_posts'[k2].id = all_posts[k].id]_vars

\* an edited post has been reloaded: its id is still the triple of the
\* body it was created with, not of the body it has now
C15_Witness ==
    /\ last.op = "restart"
    /\ \E k \in 1..Len(all_posts) :
          /\ all_posts[k].edits # <<>>
          /\ all_posts[k].content = EditedBody
          /\ all_posts[k].id
                # generate_deterministic_post_id(all_posts[k].folder,
                                                 all_posts[k].content,
                                                 all_posts[k].time)

\* C16: a cycle that applies a batch of k >= 1 accepted actions, each of
\* which changes the store, completes the rebuild exactly once
C16_OneRebuildPerBatch ==
    [][(/\ Cycle
        /\ Len(last'.accepted) >= 1
        /\ \A i \in 1..Len(last'.effects) : last'.effects[i])
          => last'.rebuilds = 1]_vars

\* the post dict p of the store is not what it was as q before the step:
\* a field, the reacts list or the number of comments differs
Modified(q, p) ==
    \/ p # q
    \/ ItemsOf(heap', p.reacts) # ItemsOf(heap, q.reacts)
    \/ Len(ItemsOf(heap', p.cl)) # Len(ItemsOf(heap, q.cl))

\* C17: a comment, reaction, edit or share the user issues on a displayed
\* post modifies no post of the store but one that carries the id of the
\* widget's post
C17_AddressedPostOnly ==
    [][last'.op \in {"add_comment", "add_reaction", "edit_post",
                     "handle_share"}
          => \A k \in 1..Len(all_posts), k2 \in 1..Len(all_posts') :
                (/\ all_posts'[k2].pid = all_posts[k].pid
                 /\ Modified(all_posts[k], all_posts'[k2]))
                   => all_posts[k].id = visible_posts[last'.wi].post_id]_vars

\* the post dict q of the store is no longer in the store after the step
Gone(q) == \A k2 \in 1..Len(all_posts') : all_posts'[k2].pid # q.pid

\* C18: a report removes a post exactly when its distinct reporters reach
\* the threshold: a post leaves the store only with that many reporters
\* (the reporting user counted), no post stays with that many, a report by
\* a user already in the set changes neither set nor count, and the count
\* is the size of the set
C18_RemovedAtThreshold ==
    [][last'.op \in {"report_post", "unreport_post"}
          => /\ \A k \in 1..Len(all_posts) :
                   Gone(all_posts[k])
                      => /\ last'.op = "report_post"
                         /\ Cardinality(Range(all_posts[k].reported_by)
                                           \cup {last'.user})
                               >= ReportThreshold
             /\ \A k2 \in 1..Len(all_posts') :
                   /\ Cardinality(Range(all_posts'[k2].reported_by))
                         < ReportThreshold
                   /\ all_posts'[k2].reports
                         = Cardinality(Range(all_posts'[k2].reported_by))
             /\ \A k \in 1..Len(all_posts), k2 \in 1..Len(all_posts') :
                   (/\ all_posts'[k2].pid = all_posts[k].pid
                    /\ last'.op = "report_post"
                    /\ last'.user \in Range(all_posts[k].reported_by))
                      => all_posts'[k2] = all_posts[k]]_vars

\* the ids of the comments of a post dict, and of the replies of a comment
\* dict, in heap h
CommentIds(h, cobjs, p) == {cobjs[c].id : c \in Range(ItemsOf(h, p.cl))}
ReplyIds(h, cobj) == {r.id : r \in Range(ItemsOf(h, cobj.replies))}

\* C19: no step removes a comment from a post that stays in the store, or a
\* reply from a comment that stays in the list of such a post: the lists
\* keep every entry they had and do not get shorter
C19_CommentsNeverRemoved ==
    [][\A k \in 1..Len(all_posts), k2 \in 1..Len(all_posts') :
          all_posts'[k2].pid = all_posts[k].pid
             => /\ CommentIds(heap, comment_objs, all_posts[k])
                      \subseteq CommentIds(heap', comment_objs', all_posts'[k2])
                /\ Len(ItemsOf(heap', all_posts'[k2].cl))
                      >= Len(ItemsOf(heap, all_posts[k].cl))
                /\ \A c \in Range(ItemsOf(heap, all_posts[k].cl)) :
                      c \in Range(ItemsOf(heap', all_posts'[k2].cl))
                         => ReplyIds(heap, comment_objs[c])
                               \subseteq ReplyIds(heap', comment_objs'[c])]_vars

\* the post dict p has an entry in the persisted document of scope f
Persisted(p, f) ==
    \E i \in 1..Len(files[f]) :
       files[f][i].id = p.id /\ files[f][i].folder = p.folder

\* C20: in the documents save_posts has written, no entry is a post of the
\* agent, and every other post of the store has an entry in the document
\* of its own scope and in no other
C20_SavedByScope ==
    /\ \A f \in Scopes : \A i \in 1..Len(files[f]) :
          files[f][i].folder = f
    /\ \A k \in 1..Len(all_posts) :
          IF all_posts[k].folder = "random_user"
          THEN \A f \in Scopes : ~Persisted(all_posts[k], f)
          ELSE \A f \in Scopes :
                  Persisted(all_posts[k], f) <=> f = all_posts[k].folder

\* an agent handler has saved a store that holds a post of the agent next
\* to a friend's post and a post of the user
C20_Witness ==
    /\ last.op = "agent"
    /\ \E k \in 1..Len(all_posts) : all_posts[k].folder = "random_user"
    /\ \E k \in 1..Len(all_posts) : all_posts[k].folder = "1"
    /\ \E k \in 1..Len(all_posts) : all_posts[k].folder = "user"

\* what C21 compares of a post dict p in the state st: id, body, timestamp,
\* counters, and the comments with their replies (as a set: the order of
\* the list is left out)
AgentPostView(st, p) ==
    [id |-> p.id, content |-> p.content, time |-> p.time,
     likes |-> p.likes, comments |-> p.comments, shares |-> p.shares,
     comments_list |-> {CommentDoc(st, c) : c \in Range(ListOf(st, p.cl))}]

\* the feed document is the one a rebuild writes from the store as it is
Rebuilt == home = [k \in 1..Len(all_posts) |-> HomeEntry(St, all_posts[k])]

\* C21: a load that follows a rebuild finds every post of the agent again:
\* exactly one post of the store carries its id, with the same body,
\* timestamp, counters, comments and replies
C21_AgentPostsReloaded ==
    [][(last'.op = "restart" /\ Rebuilt)
          => \A k \in 1..Len(all_posts) :
                all_posts[k].folder = "random_user"
                   => /\ Cardinality({k2 \in 1..Len(all_posts') :
                                         all_posts'[k2].id = all_posts[k].id}) = 1
                      /\ \E k2 \in 1..Len(all_posts') :
                            AgentPostView(St', all_posts'[k2])
                               = AgentPostView(St, all_posts[k])]_vars

\* C22: load_posts completes whatever the documents are; a document that
\* cannot be read contributes no post, a readable one all of its posts
C22_LoadNeverRaises ==
    [][last'.op = "load_posts"
          => /\ ~last'.raised
             /\ \A f \in Scopes :
                   PostIds(all_posts', f)
                      = IF last.kinds[f] = "ok"
                        THEN [i \in 1..Len(files[f]) |-> files[f][i].id]
                        ELSE <<>>]_vars

\* C23: what the embedded_post of a repost or quote records (content and
\* counters, as the store holds them and as a rebuild writes them) is the
\* same after every step as before it
C23_EmbeddedIsFrozen ==
    [][\A k \in 1..Len(all_posts), k2 \in 1..Len(all_posts') :
          (/\ all_posts'[k2].pid = all_posts[k].pid
           /\ all_posts[k].emb.kind # "none")
             => /\ all_posts'[k2].emb.kind # "none"
                /\ EmbeddedView(St', all_posts'[k2].emb)
                      = EmbeddedView(St, all_posts[k].emb)]_vars

\* s keeps the order of t: s is t with some elements left out
KeepsOrder(s, t) ==
    \E f \in [1..Len(s) -> 1..Len(t)] :
       /\ \A i \in 1..Len(s) : s[i] = t[f[i]]
       /\ \A i, j \in 1..Len(s) : i < j => f[i] < f[j]

\* C24: the actions a cycle applies, each of which changes the store, are
\* applied in the order in which the validator delivered them
C24_AppliedInValidatorOrder ==
    [][(/\ Cycle /\ last'.gate = "go"
        /\ \A i \in 1..Len(last'.effects) : last'.effects[i])
          => KeepsOrder(last'.accepted, last'.validated)]_vars

\* the classes by which the proposer reports that it cannot be used:
\* authentication, availability
AvailabilityErrors == {"PermissionDenied", "ServiceUnavailable"}

\* the cycle just run belongs to a process whose proposer is unavailable:
\* the library or the credentials are missing, or the proposer has reported
\* an authentication or availability error in this cycle or an earlier one
ProposerDown ==
    \/ config.llm # "ready"
    \/ \E e \in last'.errors : e.type \in AvailabilityErrors

\* C25: once the Content Proposer is unavailable (library missing,
\* credentials missing, or an availability/authentication error reported),
\* that cycle and every later cycle of the process ends without an
\* exception leaving the handler and applies no action to the store
C25_UnavailableForGood ==
    [][(last'.op = "cycle" /\ ProposerDown) =>
          /\ ~last'.propagated
          /\ last'.accepted = <<>>
          /\ StoreOf(St') = StoreOf(St)]_vars

\* C26: no error raised inside a scheduler cycle - home.json cannot be
\* read, the proposer raises an error of any class (also one whose strategy
\* is "terminate"), an exception while an action is applied - leaves
\* run_random_user_session, and after such a cycle the handler can run again
C26_ErrorsStayInside ==
    ("error" \in DOMAIN last /\ last.error) =>
       /\ ~last.propagated
       /\ ops < MaxSessions => ENABLED RunCycle

\* a second cycle in which applying an action raised, after a cycle in
\* which the proposer raised an error
C26_Witness ==
    /\ last.op = "cycle" /\ ops = 2
    /\ last.error /\ last.accepted # <<>>
    /\ last.errors # {}

\* the proposer was invoked in the cycle just run and its response could
\* not be parsed: text that is no JSON, or a parse error raised by the chain
ParseFailed ==
    /\ last'.op = "cycle" /\ last'.invoked >= 1
    /\ last'.answer = "unparsable" \/ last'.type = "OutputParserException"

\* C27: when the proposer's response cannot be parsed, the proposer is
\* invoked exactly one more time in the same cycle
C27_ParseErrorRetriedOnce ==
    [][ParseFailed => last'.invoked = 2]_vars

\* the rate-limit errors the proposer reported before the cycle just run
\* whose back-off interval holds the start of that cycle
BackingOff ==
    {e \in Reported(last) :
        e.type = "ResourceExhausted" /\ now < e.at + BackoffSeconds}

\* C28: the cycle in which the proposer reports a rate-limit error yields
\* zero actions, and every cycle that starts within the back-off interval
\* afterwards is skipped without invoking the proposer
C28_BackoffSkipsCycles ==
    [][last'.op = "cycle" =>
          /\ (last'.invoked = 1 /\ last'.type = "ResourceExhausted")
                => last'.accepted = <<>>
          /\ BackingOff # {} => last'.invoked = 0]_vars

\* the cycle just run passed the pause test and the rate cap and read
\* home.json
PassedRateCap ==
    /\ last'.op = "cycle"
    /\ last'.gate \notin {"paused", "throttled", "unreadable"}

\* C30: in every cycle that passes the rate cap, with an empty feed too,
\* an integer r of 1..100 is drawn, the proposer is invoked only if r is at
\* or below actions_per_cent, and when r is greater the cycle yields zero
\* actions
C30_RollGatesProposer ==
    [][PassedRateCap =>
          /\ last'.roll \in 1..RollMax
          /\ last'.invoked >= 1 => last'.roll <= config.actions_per_cent
          /\ last'.roll > config.actions_per_cent
                => /\ last'.gate = "skipped"
                   /\ last'.accepted = <<>>
                   /\ StoreOf(St') = StoreOf(St)
          /\ (last'.roll <= config.actions_per_cent /\ config.llm = "ready")
                => last'.invoked = 1]_vars

\* a cycle on an empty feed whose roll equals actions_per_cent: the
\* proposer was invoked and its post applied
C30_Witness ==
    /\ last.op = "cycle" /\ last.empty_feed
    /\ last.gate = "go" /\ last.roll = config.actions_per_cent
    /\ last.invoked = 1 /\ Len(last.accepted) = 1
    /\ Len(all_posts) = 1

\* the handler just run changed a store post and an exception occurred in
\* the save and rebuild that follow the change
MutationFailed ==
    /\ last'.op \in {"add_reaction", "add_comment"}
    /\ last'.failed /\ last'.k # 0

\* C29: when an exception occurs in the save and rebuild that follow a
\* change of the store, the change stays in the store (a first reaction
\* raises the post's like counter by one and leaves the user's record in
\* its reacts list, taking the reaction back lowers the counter and removes
\* the record, a comment stays in the post's list), no exception leaves the
\* handler, so that the process continues, and the next rebuild that
\* succeeds writes a feed entry that agrees with the store for every post
\* so changed
C29_MutationSurvivesFailure ==
    [][/\ MutationFailed =>
             /\ ~last'.escaped
             /\ home' = home
             /\ (last'.op = "add_reaction" /\ last'.was = "") =>
                   /\ all_posts'[last'.k].likes = all_posts[last'.k].likes + 1
                   /\ ReactionOf(ListOf(St', all_posts'[last'.k].reacts),
                                 CurrentUser) # ""
             /\ (last'.op = "add_reaction" /\ last'.was = last'.emoji
                    /\ all_posts[last'.k].likes > 0) =>
                   /\ all_posts'[last'.k].likes = all_posts[last'.k].likes - 1
                   /\ ReactionOf(ListOf(St', all_posts'[last'.k].reacts),
                                 CurrentUser) = ""
             /\ last'.op = "add_comment" =>
                   Len(ListOf(St', all_posts'[last'.k].cl))
                      = Len(ListOf(St, all_posts[last'.k].cl)) + 1
       /\ (last'.op \in {"add_reaction", "add_comment"}
              /\ last'.rebuilds > 0) =>
             \A k \in Pending(last) :
                home'[k] = HomeEntry(St', all_posts'[k])]_vars

\* the posts handed to the proposer in the cycle just run
Snapshot == construct_user_prompt(home, config.feed_read)

\* C31: every action applied in a cycle names only post ids and comment
\* ids of the bounded snapshot handed to the proposer in that cycle; a
\* proposal naming an id of the feed outside that snapshot is rejected
C31_TargetsWithinSnapshot ==
    [][(Cycle /\ last'.gate = "go") =>
          \A j \in 1..Len(last'.accepted) :
             LET a == last'.accepted[j]
             IN /\ HasId(a.post_id) => a.post_id \in ValidPostIds(Snapshot)
                /\ HasId(a.original_post_id)
                      => a.original_post_id \in ValidPostIds(Snapshot)
                /\ HasComment(a.comment_id)
                      => a.comment_id \in ValidCommentIds(Snapshot)]_vars

\* t takes its elements from distinct positions of s
SubCollection(t, s) ==
    \E f \in [1..Len(t) -> 1..Len(s)] :
       /\ \A i \in 1..Len(t) : t[i] = s[f[i]]
       /\ \A i, j \in 1..Len(t) : i # j => f[i] # f[j]

\* C32: with decline sampling enabled at percentage d, 0 < d <= 100, and n
\* validated actions, the retained actions are a sub-collection of the
\* validated ones, each retained at most once, and their number is
\* floor(n * (100 - d) / 100)
C32_DeclineKeepsTargetShare ==
    [][(Cycle /\ last'.gate = "go" /\ config.decline_actions = 1
           /\ config.decline_actions_cent > 0
           /\ config.decline_actions_cent <= 100) =>
          /\ SubCollection(last'.accepted, last'.validated)
          /\ Len(last'.accepted)
                = (Len(last'.validated) * (100 - config.decline_actions_cent))
                     \div 100]_vars

\* the replies are in the order in which they were written
Chronological(replies) ==
    \A i, j \in 1..Len(replies) : i < j => replies[i].time <= replies[j].time

\* C33: for every comment with replies the collapsed view shows first a
\* reply with the greatest number of likes, the expanded view shows all
\* replies in chronological order (the order of the stored list), and the
\* stored reply list is not reordered
C33_ReplyViews ==
    [][last'.op = "toggle_replies" /\ last'.stored # <<>> =>
          /\ Len(last'.collapsed) = 1
          /\ \A i \in 1..Len(last'.stored) :
                Len(last'.stored[i].likes) <= Len(last'.collapsed[1].likes)
          /\ Len(last'.expanded) = Len(last'.stored)
          /\ Range(last'.expanded) = Range(last'.stored)
          /\ Chronological(last'.expanded)
          /\ heap' = heap]_vars

\* the list l' of the heap after the step has exactly one entry more than
\* the list l of the heap before it
OneMore(l, l2) == Len(ItemsOf(heap', l2)) = Len(ItemsOf(heap, l)) + 1

\* C34: a comment action adds exactly one entry to the comments_list of the
\* store post it targets, and a reply action exactly one entry to the
\* replies list of the store comment it targets, whether the user or the
\* agent acts and whether or not a widget displays the post
C34_OneEntryPerAction ==
    [][/\ last'.op = "add_comment" /\ last'.k # 0
          => OneMore(all_posts[last'.k].cl, all_posts'[last'.k].cl)
       /\ last'.op = "add_reply"
          => OneMore(
               comment_objs[visible_posts[last'.wi].cws[last'.j].ref].replies,
               comment_objs'[visible_posts[last'.wi].cws[last'.j].ref].replies)
       /\ last'.op = "agent" /\ last'.action.tool = "comment_post"
             /\ last'.k # 0
          => OneMore(all_posts[last'.k].cl, all_posts'[last'.k].cl)
       /\ last'.op = "agent" /\ last'.action.tool = "reply_comment"
             /\ last'.c # 0
          => OneMore(comment_objs[last'.c].replies,
                     comment_objs'[last'.c].replies)]_vars

\* C35: in every reachable state no two posts of the store carry the same
\* id, also when one author posts, reposts or quotes several times within
\* one second
C35_PostIdsDistinct ==
    \A i, j \in 1..Len(all_posts) :
       i # j => all_posts[i].id # all_posts[j].id

\* C36: once a post has been deleted, by its owner or by reaching the
\* report threshold, a later start of the program does not bring it back:
\* after load_posts no post of the store carries the id of a removed post,
\* whatever its author scope and also when it was the only post of its scope
C36_DeletedStaysDeleted ==
    [][last'.op = "restart"
          => \A k \in 1..Len(all_posts') :
                all_posts'[k].id \notin last'.removed]_vars

\* C37: a step that deletes a post (delete_post, or report_post at the
\* threshold) removes exactly the post of the widget it was invoked on:
\* that post is gone and every other post of the store, a post with the
\* same creation timestamp included, is still there unchanged
C37_DeleteRemovesOnlyTarget ==
    [][last'.op \in {"delete_post", "report_post"}
          /\ Len(all_posts') < Len(all_posts)
          => /\ \A k2 \in 1..Len(all_posts') :
                   all_posts'[k2].id # visible_posts[last'.wi].post_id
             /\ \A k \in 1..Len(all_posts) :
                   all_posts[k].id # visible_posts[last'.wi].post_id
                      => \E k2 \in 1..Len(all_posts') :
                            all_posts'[k2] = all_posts[k]]_vars

\* the comments of post dict p and the replies under them, counted in the
\* store
Stored(p) ==
    Len(ItemsOf(heap, p.cl))
    + SeqSum([i \in 1..Len(ItemsOf(heap, p.cl)) |->
                Len(ItemsOf(heap, comment_objs[ItemsOf(heap, p.cl)[i]].replies))])

\* C38: between handlers, the comment counter of every post of the store
\* equals the number of its comments plus the number of their replies,
\* whatever the order in which the user and the agent commented and replied
C38_CounterMatchesComments ==
    \A k \in 1..Len(all_posts) : all_posts[k].comments = Stored(all_posts[k])

\* C39: every action a cycle accepts is recorded with a timestamp in the
\* rate-limit window: after the cycle action_timestamps holds, behind the
\* stamps still inside the window, one stamp of the cycle's time for each
\* accepted action, also when the cycle started with an empty feed
C39_AcceptedActionsStamped ==
    [][last'.op = "session"
          => action_timestamps' =
                Pruned(config, action_timestamps, now)
                \o [i \in 1..Len(last'.accepted) |-> now]]_vars

\* C40: _rebuilding_feed is set only while an invocation of
\* _rebuild_home_feed is executing, whether the invocation returns or
\* raises; _loading_posts is false when load_posts is left; and a rebuild
\* requested while no rebuild is executing is not skipped, also after an
\* earlier rebuild has failed
C40_FlagsResetOnEveryExit ==
    /\ [](rebuilding_feed => chain.active)
    /\ [][/\ "loading_posts" \in DOMAIN last' => ~last'.loading_posts
          /\ "skipped" \in DOMAIN last' => ~last'.skipped]_vars

\* a rebuild has failed earlier, and a later rebuild request was not
\* skipped and completed with the flag false
C40_Witness ==
    /\ "failures" \in DOMAIN last
    /\ last.failures > 0
    /\ ~last.skipped /\ ~last.raised
    /\ last.op \in {"agent", "delete_post"}
    /\ ~rebuilding_feed
    /\ home = Materialized

====
